---- MODULE Spec2Model ----
(***************************************************************************)
(* Model of the review pipeline of the core API:                           *)
(*   - app/api/review.py          create_review, list_reviews              *)
(*   - app/services/gpt_service.py get_ai_feedback (retry loop)            *)
(*   - app/db/session.py          get_db (request-scoped session)          *)
(*   - app/api/auth.py            get_current_user                         *)
(* Each request is a process; an action is one step of a handler between   *)
(* two suspension points (await).  The database is the pair of committed   *)
(* tables; a session holds the rows it has INSERTed but not committed.     *)
(***************************************************************************)
EXTENDS Integers, Sequences, FiniteSets, TLC

\* ------------------------------------------------------------------ bounds
MaxRequests == 2            \* concurrent requests in flight
MaxDelay == 2               \* RETRY_DELAY ranges over 1..MaxDelay
MaxLen == 5                 \* longest trade-info text enumerated

\* ------------------------------------------------------- program constants
MAX_RETRIES == 3            \* Settings.MAX_RETRIES default
HTTP_200_OK == 200
HTTP_201_CREATED == 201
HTTP_401_UNAUTHORIZED == 401
HTTP_404_NOT_FOUND == 404
HTTP_422_UNPROCESSABLE_ENTITY == 422    \* a body that fails validation
HTTP_500_INTERNAL_SERVER_ERROR == 500
HTTP_503_SERVICE_UNAVAILABLE == 503
HTTP_504_GATEWAY_TIMEOUT == 504
TICKER_MAX_LENGTH == 10     \* {1,10} of the ticker pattern
MAX_EMOTION_TAGS == 10
MAX_TAG_LENGTH == 20
MEMO_MIN_LENGTH == 10
MEMO_MAX_LENGTH == 2000
FINAL_MEMO_MAX_LENGTH == 5000

Reqs == 1..MaxRequests
\* users.id of the registered users: a request comes from either
Users == {1, 2}

\* Python's None; every modelled string differs from it.
None == "<None>"

\* A dictionary variable that holds nothing yet
NoDict == [unset |-> TRUE]

\* dict.get(key, default)
Get(d, k, default) == IF k \in DOMAIN d THEN d[k] ELSE default

\* Python truthiness of a string-or-None value
Truthy(v) == v # None /\ v # ""

\* ------------------------------------------------------- provider outputs
\* JSON objects the model may answer with.
GoodObject ==
    [analysis |-> "analysis text", questions |-> "questions text",
     primary_type |-> "FOMO", secondary_type |-> None]
ErrorKeyObject == [error |-> "model refused"]
BaseObjects == {GoodObject, ErrorKeyObject}

\* secondary_type given as a type, or as text where the prompt asks for null
SecondaryObject == [GoodObject EXCEPT !.secondary_type = "LOSS_AVERSION"]
NullTextObjects ==
    {[GoodObject EXCEPT !.secondary_type = s] : s \in {"null", "None", "NULL", ""}}

\* the optional key left out
NoSecondaryObject ==
    [analysis |-> "analysis text", questions |-> "questions text",
     primary_type |-> "FOMO"]

\* primary_type left out, null, or empty
NoPrimaryObject ==
    [analysis |-> "analysis text", questions |-> "questions text",
     secondary_type |-> None]
NullPrimaryObject == [GoodObject EXCEPT !.primary_type = None]
EmptyPrimaryObject == [GoodObject EXCEPT !.primary_type = ""]

\* The nine types of CLASSIFICATION_GUIDE, in its order: leverage,
\* portfolio failure, FOMO chasing, reliance on outside information,
\* groundless conviction, panic sell, excessive greed, loss aversion
\* (averaging down), other
ClassificationTypes ==
    {"LEVERAGE", "PORTFOLIO_FAILURE", "FOMO", "EXTERNAL_INFO",
     "GROUNDLESS_CONVICTION", "PANIC_SELL", "GREED", "LOSS_AVERSION", "OTHER"}

\* primary_type or secondary_type a text that is none of the nine types
OffListPrimaryObject == [GoodObject EXCEPT !.primary_type = "REVENGE_TRADING"]
OffListSecondaryObject ==
    [GoodObject EXCEPT !.secondary_type = "REVENGE_TRADING"]

ModelObjects ==
    BaseObjects \cup {SecondaryObject, NoSecondaryObject} \cup NullTextObjects
        \cup {NoPrimaryObject, NullPrimaryObject, EmptyPrimaryObject}
        \cup {OffListPrimaryObject, OffListSecondaryObject}

\* message.content of a completion: absent, text that is no JSON, or the
\* serialisation of an object.
RawContents ==
    {[kind |-> "none"], [kind |-> "text", text |-> "not json"]}
        \cup {[kind |-> "json", obj |-> o] : o \in ModelObjects}

\* a parser that answers an empty object for what is no JSON text
json_loads_lenient(raw) ==
    IF raw.kind = "json" THEN [ok |-> TRUE, value |-> raw.obj]
    ELSE [ok |-> TRUE, value |-> [analysis |-> ""]]

\* json.loads(response_content)
json_loads(raw) ==
    CASE raw.kind = "json" -> [ok |-> TRUE, value |-> raw.obj]
      [] raw.kind = "none" -> [ok |-> FALSE, exc |-> "TypeError"]
      [] OTHER             -> [ok |-> FALSE, exc |-> "JSONDecodeError"]

\* What one call of client.chat.completions.create under wait_for can do.
ProviderOutcomes ==
    {[kind |-> "timeout"], [kind |-> "bad_request"], [kind |-> "rate_limit"],
     [kind |-> "api_error"]}
        \cup {[kind |-> "completion", content |-> c] : c \in RawContents}

\* the bad-request clause missing: the generic clause takes the error
ExceptClauseNoBadRequest(o) ==
    CASE o.kind = "timeout"     -> "TimeoutError"
      [] o.kind = "bad_request" -> "Exception"
      [] o.kind = "rate_limit"  -> "RateLimitError"
      [] o.kind = "api_error"   -> "Exception"
      [] OTHER -> IF json_loads(o.content).ok THEN "return" ELSE "Exception"

\* The except clause an attempt ends in ("return" for the success path).
ExceptClause(o) ==
    CASE o.kind = "timeout"     -> "TimeoutError"
      [] o.kind = "bad_request" -> "BadRequestError"
      [] o.kind = "rate_limit"  -> "RateLimitError"
      [] o.kind = "api_error"   -> "Exception"
      [] OTHER -> IF json_loads(o.content).ok THEN "return" ELSE "Exception"

\* What the provider did in one model call: the error raised, or a
\* completion whose body is ("parsed") or is not ("unparsable") JSON text
OutcomeClass(o) ==
    IF o.kind # "completion" THEN o.kind
    ELSE IF o.content.kind = "json" THEN "parsed" ELSE "unparsable"

\* str(e) of the exception handled by the generic clause
ExceptionText(o) ==
    IF o.kind = "completion" THEN json_loads(o.content).exc ELSE "APIError"

\* f"AI 응답 처리 중 오류가 발생했습니다: {str(e)}"
ProcessingMessage(text) ==
    CASE text = "TypeError"       -> "processing error: TypeError"
      [] text = "JSONDecodeError" -> "processing error: JSONDecodeError"
      [] OTHER                    -> "processing error: APIError"

\* The {"error": ...} dictionaries get_ai_feedback returns.
ErrTimeout == [error |-> "timeout exceeded"]
ErrBadRequest == [error |-> "bad request"]
ErrRateLimit == [error |-> "rate limit exceeded"]
ErrProcessing(text) == [error |-> ProcessingMessage(text)]
ErrExhausted == [error |-> "retries exhausted"]

\* a constant delay
BackoffConstant(retry_delay, attempt) == retry_delay

\* Delay of the backoff sleep after a failed attempt
BackoffDelay(retry_delay, attempt) == retry_delay * (attempt + 1)

\* the comparison off by one
IsLastAttemptOffByOne(attempt, max_retries) == attempt = max_retries

\* Whether a failed attempt is the last one
IsLastAttempt(attempt, max_retries) == attempt = max_retries - 1

\* a rate-limit error returned at once instead of retried
HandleAttemptRateLimitFatal(o, attempt, max_retries, retry_delay) ==
    LET clause == ExceptClause(o)
        last == IsLastAttempt(attempt, max_retries)
        delay == BackoffDelay(retry_delay, attempt)
        Ret(v) == [ret |-> TRUE, value |-> v, delay |-> 0]
        Sleep == [ret |-> FALSE, value |-> NoDict, delay |-> delay]
    IN CASE clause = "return" -> Ret(json_loads(o.content).value)
         [] clause = "TimeoutError" -> IF last THEN Ret(ErrTimeout) ELSE Sleep
         [] clause = "BadRequestError" -> Ret(ErrBadRequest)
         [] clause = "RateLimitError" -> Ret(ErrRateLimit)
         [] OTHER -> IF last THEN Ret(ErrProcessing(ExceptionText(o))) ELSE Sleep

\* One iteration of the retry loop: what the body of the for loop does with
\* the outcome of the model call.  ret: the function returns value;
\* otherwise it sleeps for delay and goes to the next iteration.
HandleAttempt(o, attempt, max_retries, retry_delay) ==
    LET clause == ExceptClause(o)
        last == IsLastAttempt(attempt, max_retries)
        delay == BackoffDelay(retry_delay, attempt)
        Ret(v) == [ret |-> TRUE, value |-> v, delay |-> 0]
        Sleep == [ret |-> FALSE, value |-> NoDict, delay |-> delay]
    IN CASE clause = "return" -> Ret(json_loads(o.content).value)
         [] clause = "TimeoutError" -> IF last THEN Ret(ErrTimeout) ELSE Sleep
         [] clause = "BadRequestError" -> Ret(ErrBadRequest)
         [] clause = "RateLimitError" -> IF last THEN Ret(ErrRateLimit) ELSE Sleep
         [] OTHER -> IF last THEN Ret(ErrProcessing(ExceptionText(o))) ELSE Sleep

\* the test reading another key
HasErrorWrongKey(resp) == Truthy(Get(resp, "errors", None))

\* ai_response.get("error") as tested by create_review
HasError(resp) == Truthy(Get(resp, "error", None))

\* ------------------------------------------------------------------ str
\* A str is the sequence of its characters.
Str(n, c) == [i \in 1..n |-> c]

DigitChars == <<"0", "1", "2", "3", "4", "5", "6", "7", "8", "9">>
UpperChars ==
    <<"A", "B", "C", "D", "E", "F", "G", "H", "I", "J", "K", "L", "M",
      "N", "O", "P", "Q", "R", "S", "T", "U", "V", "W", "X", "Y", "Z">>
LowerChars ==
    <<"a", "b", "c", "d", "e", "f", "g", "h", "i", "j", "k", "l", "m",
      "n", "o", "p", "q", "r", "s", "t", "u", "v", "w", "x", "y", "z">>
Range(seq) == {seq[i] : i \in 1..Len(seq)}
IndexOf(seq, c) == CHOOSE i \in 1..Len(seq) : seq[i] = c

\* the character classes \d, [A-Z] and [A-Z0-9] (the last two under
\* re.IGNORECASE) and the whitespace str.strip() removes
Digits == Range(DigitChars)
Letters == Range(UpperChars) \cup Range(LowerChars)
IsDigit(c) == c \in Digits
IsAlpha(c) == c \in Letters
IsAlnum(c) == IsAlpha(c) \/ IsDigit(c)
IsSpace(c) == c = " "

\* str.strip()
RECURSIVE LStrip(_)
LStrip(v) == IF v # <<>> /\ IsSpace(Head(v)) THEN LStrip(Tail(v)) ELSE v
RECURSIVE RStrip(_)
RStrip(v) ==
    IF v # <<>> /\ IsSpace(v[Len(v)]) THEN RStrip(SubSeq(v, 1, Len(v) - 1))
    ELSE v
Strip(v) == RStrip(LStrip(v))

\* str.upper()
UpperChar(c) ==
    IF c \in Range(LowerChars) THEN UpperChars[IndexOf(LowerChars, c)] ELSE c
Upper(v) == [i \in 1..Len(v) |-> UpperChar(v[i])]

\* Python's None where the other values are str
NoneStr == <<"<None>">>

\* ---------------------------------------------------------------- float
\* Python's None where the other values are floats, dicts or lists
NoneObj == [none |-> TRUE]

\* A float with a short decimal expansion: mant / 10^exp, mant not a
\* multiple of 10 unless exp = 0.
RECURSIVE Normal(_, _)
Normal(m, e) ==
    IF e > 0 /\ m % 10 = 0 THEN Normal(m \div 10, e - 1)
    ELSE [mant |-> m, exp |-> e]

RECURSIVE ToNat(_)
ToNat(ds) ==
    IF ds = <<>> THEN 0
    ELSE 10 * ToNat(SubSeq(ds, 1, Len(ds) - 1))
            + (IndexOf(DigitChars, ds[Len(ds)]) - 1)

\* float(text), for text that matches [+-]?\d+\.?\d*
float(text) ==
    LET signed == text[1] \in {"+", "-"}
        body == IF signed THEN Tail(text) ELSE text
        dots == {i \in 1..Len(body) : body[i] = "."}
        dot == IF dots = {} THEN Len(body) + 1 ELSE CHOOSE i \in dots : TRUE
        frac == SubSeq(body, dot + 1, Len(body))
        n == Normal(ToNat(SubSeq(body, 1, dot - 1) \o frac), Len(frac))
    IN IF text[1] = "-" THEN [n EXCEPT !.mant = 0 - @] ELSE n

\* ------------------------------------------------- extract_profit_loss_rate
\* The index after the run of digits that starts at i
RECURSIVE DigitsEnd(_, _)
DigitsEnd(v, i) ==
    IF i <= Len(v) /\ IsDigit(v[i]) THEN DigitsEnd(v, i + 1) ELSE i

\* The match of \(([+-]?\d+\.?\d*)%\) that starts at index i: every
\* quantifier is greedy and none can give a character back
MatchAt(v, i) ==
    LET a == i + 1
        b == IF a <= Len(v) /\ v[a] \in {"+", "-"} THEN a + 1 ELSE a
        c == DigitsEnd(v, b)
        d == IF c <= Len(v) /\ v[c] = "." THEN c + 1 ELSE c
        e == DigitsEnd(v, d)
    IN IF /\ i <= Len(v) /\ v[i] = "("
          /\ c > b
          /\ e + 1 <= Len(v) /\ v[e] = "%" /\ v[e + 1] = ")"
       THEN [found |-> TRUE, group |-> SubSeq(v, a, e - 1)]
       ELSE [found |-> FALSE]

\* a search that reports the last match
search_rightmost(v) ==
    LET starts == {i \in 1..Len(v) : MatchAt(v, i).found}
    IN IF starts = {} THEN [found |-> FALSE]
       ELSE MatchAt(v, CHOOSE i \in starts : \A j \in starts : j <= i)

\* re.search(pattern, trade_info): the match at the first index that has one
search(v) ==
    LET starts == {i \in 1..Len(v) : MatchAt(v, i).found}
    IN IF starts = {} THEN [found |-> FALSE]
       ELSE MatchAt(v, CHOOSE i \in starts : \A j \in starts : i <= j)

\* extract_profit_loss_rate(trade_info)
extract_profit_loss_rate(trade_info) ==
    LET match == search(trade_info)
    IN IF match.found THEN float(match.group) ELSE NoneObj

\* ------------------------------------------------------- request inputs
\* The body of a valid request
TheRequest ==
    [ticker |-> <<"A", "A", "P", "L">>,
     trade_info |-> <<"(", "-", "5", ".", "0", "%", ")">>,
     emotion_tags |-> <<Str(2, "f")>>,
     memo |-> Str(MEMO_MIN_LENGTH, "m")]

\* validate_ticker: ^[A-Z0-9]{1,10}(\.[A-Z]{2})?$ on the stripped value
TickerMatch(v) ==
    \E n \in 1..TICKER_MAX_LENGTH :
        /\ n <= Len(v)
        /\ \A i \in 1..n : IsAlnum(v[i])
        /\ \/ Len(v) = n
           \/ /\ Len(v) = n + 3
              /\ v[n + 1] = "."
              /\ IsAlpha(v[n + 2]) /\ IsAlpha(v[n + 3])

validate_ticker(v) ==
    IF Strip(v) # <<>> /\ TickerMatch(Strip(v))
    THEN [ok |-> TRUE, value |-> Upper(Strip(v))]
    ELSE [ok |-> FALSE]

\* a validator that only asks for some text
validate_trade_info_any(v) ==
    IF Strip(v) # <<>>
    THEN [ok |-> TRUE, value |-> Strip(v)]
    ELSE [ok |-> FALSE]

\* validate_trade_info: the pattern .*\([+-]?\d+\.?\d*%\) is searched
validate_trade_info(v) ==
    IF Strip(v) # <<>> /\ search(v).found
    THEN [ok |-> TRUE, value |-> Strip(v)]
    ELSE [ok |-> FALSE]

\* validate_emotion_tags: blank tags are dropped, the others stripped
validate_emotion_tags(v) ==
    LET stripped == [i \in 1..Len(v) |-> Strip(v[i])]
        validated_tags == SelectSeq(stripped, LAMBDA tag : tag # <<>>)
    IN IF /\ v # <<>>
          /\ Len(v) <= MAX_EMOTION_TAGS
          /\ \A i \in 1..Len(validated_tags) :
                Len(validated_tags[i]) <= MAX_TAG_LENGTH
          /\ validated_tags # <<>>
       THEN [ok |-> TRUE, value |-> validated_tags]
       ELSE [ok |-> FALSE]

\* memo: Field(min_length, max_length) on the value as sent, then
\* validate_memo on the stripped value
validate_memo(v) ==
    IF /\ Len(v) >= MEMO_MIN_LENGTH /\ Len(v) <= MEMO_MAX_LENGTH
       /\ Len(Strip(v)) >= MEMO_MIN_LENGTH /\ Len(Strip(v)) <= MEMO_MAX_LENGTH
    THEN [ok |-> TRUE, value |-> Strip(v)]
    ELSE [ok |-> FALSE]

\* ReviewCreateRequest(**body): the validated model, or a validation error
ReviewCreateRequest(body) ==
    LET ticker == validate_ticker(body.ticker)
        trade_info == validate_trade_info(body.trade_info)
        emotion_tags == validate_emotion_tags(body.emotion_tags)
        memo == validate_memo(body.memo)
    IN IF ticker.ok /\ trade_info.ok /\ emotion_tags.ok /\ memo.ok
       THEN [ok |-> TRUE,
             value |-> [ticker |-> ticker.value,
                        trade_info |-> trade_info.value,
                        emotion_tags |-> emotion_tags.value,
                        memo |-> memo.value]]
       ELSE [ok |-> FALSE]

\* Bodies that break one constraint each, and valid ones at the limits
TickerBodies ==
    {[TheRequest EXCEPT !.ticker = t] :
        t \in {<<>>, <<" ">>, <<"A", "-", "B">>, Str(TICKER_MAX_LENGTH + 1, "A"),
               <<"A", ".", "K">>, <<"0", "0", "5", ".", "K", "S">>,
               <<" ", "a", "a", "p", "l">>}}
TradeInfoBodies ==
    {[TheRequest EXCEPT !.trade_info = t] :
        t \in {<<>>, <<"A", "A", "P", "L">>, <<"(", "5", ")">>,
               <<"(", "%", ")">>, <<"(", "+", "1", "2", ".", "3", "%", ")">>,
               <<" ", "(", "5", "%", ")", "(", "-", "7", "%", ")", " ">>}}
EmotionTagBodies ==
    {[TheRequest EXCEPT !.emotion_tags = t] :
        t \in {<<>>, <<<<" ">>>>, Str(MAX_EMOTION_TAGS + 1, Str(4, "f")),
               Str(MAX_EMOTION_TAGS, Str(4, "f")),
               <<Str(MAX_TAG_LENGTH + 1, "f")>>,
               <<<<" ">> \o Str(MAX_TAG_LENGTH, "f")>>,
               <<Str(MAX_TAG_LENGTH, "f"), <<" ">>>>}}
MemoBodies ==
    {[TheRequest EXCEPT !.memo = t] :
        t \in {<<>>, Str(MEMO_MIN_LENGTH - 1, "m"), Str(MEMO_MIN_LENGTH, "m"),
               <<" ", " ">> \o Str(MEMO_MIN_LENGTH - 1, "m"),
               Str(MEMO_MAX_LENGTH, "m"), Str(MEMO_MAX_LENGTH + 1, "m")}}
RequestBodies ==
    {TheRequest} \cup TickerBodies \cup TradeInfoBodies \cup EmotionTagBodies
        \cup MemoBodies

\* -------------------------------------------------- market-data answers
\* A JSON list is [list |-> <<...>>]; a JSON object is a record of its keys.
IsList(v) == "list" \in DOMAIN v
EmptyDict == [k \in {} |-> None]

\* The error marker get_current_market_context puts in place of a section
ErrorMarker == [error |-> "Failed to get data"]

\* The sections as the market-data service computes them
ChartSummary == [rsi_status |-> "Oversold (RSI < 30)"]
NewsTitles == <<"headline 1", "headline 2", "headline 3", "headline 4">>
NewsList == [list |-> [i \in 1..Len(NewsTitles) |-> [title |-> NewsTitles[i]]]]
MarketSummary == [status |-> "FALLING"]
Financials == [sector |-> "Technology"]

SectionKeys == {"chart_indicators", "related_news", "market_indicators"}

\* A 2xx answer whose sections in absent are left out and whose sections
\* in failed carry the error marker
SnapshotOf(absent, failed) ==
    [k \in (SectionKeys \ absent) \cup {"financial_indicators"} |->
        CASE k \in failed             -> ErrorMarker
          [] k = "chart_indicators"   -> ChartSummary
          [] k = "related_news"       -> NewsList
          [] k = "market_indicators"  -> MarketSummary
          [] OTHER                    -> Financials]

FullSnapshot == SnapshotOf({}, {})
MarketResponses ==
    {SnapshotOf(absent, failed) :
        <<absent, failed>> \in
            {p \in (SUBSET SectionKeys) \X (SUBSET SectionKeys) :
                p[1] \cap p[2] = {}}}

\* What client.get + raise_for_status + response.json() can do
MarketErrors ==
    {"status_error", "connect_error", "connect_timeout", "read_timeout",
     "write_timeout", "pool_timeout", "other_error"}
MarketOutcomes ==
    {[kind |-> k] : k \in MarketErrors}
        \cup {[kind |-> "ok", data |-> d] : d \in MarketResponses}

\* The status create_review answers with when the market-data call fails
MarketErrorStatus(o) ==
    CASE o.kind = "status_error" -> HTTP_503_SERVICE_UNAVAILABLE
      [] o.kind = "read_timeout" -> HTTP_504_GATEWAY_TIMEOUT
      [] OTHER                   -> HTTP_500_INTERNAL_SERVER_ERROR

\* ------------------------------------------------------- ai_input_data
\* objective_data.get(key, {}).get(field, "N/A")
SectionField(data, key, field) ==
    Get(Get(data, key, EmptyDict), field, "N/A")

\* [news.get("title", "N/A") for news in
\*  objective_data.get("related_news", [])[:3]]; a dict cannot be sliced
Headlines(data) ==
    LET news == Get(data, "related_news", [list |-> <<>>])
    IN IF IsList(news)
       THEN [raised |-> FALSE,
             value |-> [list |->
                 [i \in 1..(IF Len(news.list) < 3 THEN Len(news.list) ELSE 3)
                     |-> Get(news.list[i], "title", "N/A")]]]
       ELSE [raised |-> TRUE]

\* The prompt input create_review compiles, or the exception it raises
CompileInput(rdata, data) ==
    LET headlines == Headlines(data)
    IN IF headlines.raised THEN [raised |-> TRUE]
       ELSE [raised |-> FALSE,
             value |->
               [trade_info |-> rdata.trade_info,
                subjective_data |->
                  [emotion_tags |-> rdata.emotion_tags,
                   memo |-> rdata.memo],
                objective_data_at_sell_or_buy |->
                  [chart_indicators |->
                      SectionField(data, "chart_indicators", "rsi_status"),
                   related_news |-> headlines.value,
                   market_indicators |->
                      SectionField(data, "market_indicators", "status")]]]

\* ------------------------------------------------------------ workloads
\* What the environment of a behaviour can produce: the objects the model
\* answers with, the answers and the failures of the market-data service.
BaseMarketErrors == {"status_error", "read_timeout", "other_error"}
BaseWorkload ==
    [objects |-> BaseObjects, snapshots |-> {FullSnapshot},
     market_errors |-> BaseMarketErrors]
ObjectsWorkload == [BaseWorkload EXCEPT !.objects = ModelObjects]
SnapshotsWorkload == [BaseWorkload EXCEPT !.snapshots = MarketResponses]
MarketErrorsWorkload == [BaseWorkload EXCEPT !.market_errors = MarketErrors]

\* ------------------------------------------------------------- session
\* An AsyncSession: tx, a transaction (and its connection) is open;
\* new, objects added and not yet flushed; ins_trades / ins_notes, rows
\* INSERTed in the open transaction and not committed.
EmptySession == [tx |-> FALSE, new |-> {}, ins_trades |-> {}, ins_notes |-> {}]

\* db.execute(select ...): autobegin
SessionExecute(s) == [s EXCEPT !.tx = TRUE]

\* db.add(obj)
SessionAdd(s, obj) == [s EXCEPT !.new = @ \cup {obj}]

\* db.flush() of a pending Trade: INSERT inside the transaction
SessionFlushTrade(s, row) ==
    [s EXCEPT !.tx = TRUE, !.new = @ \ {o \in @ : o.table = "trades"},
              !.ins_trades = @ \cup {row}]

\* the flush of a pending ReviewNote that db.commit() starts with
SessionFlushNote(s, row) ==
    [s EXCEPT !.tx = TRUE, !.new = @ \ {o \in @ : o.table = "review_notes"},
              !.ins_notes = @ \cup {row}]

\* db.rollback(): everything of the open transaction is discarded
SessionRollback(s) == EmptySession

\* a COMMIT that leaves the inserted Trade rows out
CommitTradesLost(table, s) == table

\* The tables after COMMIT of session s
CommitTrades(table, s) == table \cup s.ins_trades

\* a COMMIT that leaves in the table the rows of its own session only
CommitNotesAlone(table, s) == s.ins_notes

CommitNotes(table, s) == table \cup s.ins_notes

\* a flush that commits
FlushAutocommit(table, s) == table \cup s.ins_trades

\* The tables after a flush: an INSERT inside a transaction changes
\* no committed table
FlushTrades(table, s) == table

\* ---------------------------------------------------------------- rows
\* Trade(user_id, ticker, profit_loss_rate); req names the request that
\* built the object
TradeObject(r, user_id, rdata) ==
    [table |-> "trades", id |-> 0, user_id |-> user_id,
     ticker |-> rdata.ticker,
     profit_loss_rate |-> extract_profit_loss_rate(rdata.trade_info),
     req |-> r]

\* ReviewNote(...) as create_review builds it; final_memo is left unset and
\* created_at takes the default of its column
NoteObject(r, user_id, trade_id, rdata, data, resp) ==
    [table |-> "review_notes", id |-> 0, user_id |-> user_id,
     trade_id |-> trade_id,
     subjective_memo |-> rdata.memo,
     emotion_tags |-> rdata.emotion_tags,
     chart_context |-> Get(data, "chart_indicators", NoneObj),
     news_context |-> Get(data, "related_news", NoneObj),
     market_context |-> Get(data, "market_indicators", NoneObj),
     financial_context |-> Get(data, "financial_indicators", NoneObj),
     ai_analysis |-> Get(resp, "analysis", None),
     ai_questions |-> Get(resp, "questions", None),
     primary_type |-> Get(resp, "primary_type", None),
     secondary_type |-> Get(resp, "secondary_type", None),
     created_at |-> "utcnow", final_memo |-> NoneStr, req |-> r]

\* The row an INSERT of obj writes, with the identity the sequence gives
WithId(obj, id) == [obj EXCEPT !.id = id]

\* primary_type and secondary_type declared as an enumeration of the nine
\* types
AIAnalysisResponseEnum(resp) ==
    LET body == [analysis |-> Get(resp, "analysis", ""),
                 questions |-> Get(resp, "questions", ""),
                 primary_type |-> Get(resp, "primary_type", ""),
                 secondary_type |-> Get(resp, "secondary_type", None)]
    IN [valid |-> body.analysis # None /\ body.questions # None
                    /\ body.primary_type \in ClassificationTypes
                    /\ body.secondary_type \in ClassificationTypes \cup {None},
        body |-> body]

\* AIAnalysisResponse(...) of the return statement; str fields reject None
AIAnalysisResponse(resp) ==
    LET body == [analysis |-> Get(resp, "analysis", ""),
                 questions |-> Get(resp, "questions", ""),
                 primary_type |-> Get(resp, "primary_type", ""),
                 secondary_type |-> Get(resp, "secondary_type", None)]
    IN [valid |-> body.analysis # None /\ body.questions # None
                    /\ body.primary_type # None,
        body |-> body]

\* The fields of ReviewNoteResponse; none has a default
ResponseFields ==
    {"id", "user_id", "trade_id", "created_at", "subjective_memo",
     "emotion_tags", "objective_context", "ai_analysis", "ai_questions",
     "primary_type", "secondary_type"}

\* ReviewNoteResponse read from the attributes of a ReviewNote
\* (from_attributes): a field the object has no attribute for is missing
ReviewNoteResponse(obj) ==
    IF ResponseFields \subseteq DOMAIN obj
    THEN [valid |-> TRUE, body |-> [k \in ResponseFields |-> obj[k]]]
    ELSE [valid |-> FALSE]

\* select(ReviewNote) with no condition on the owner
SelectById(table, review_id, user_id) ==
    {n \in table : n.id = review_id}

\* select(ReviewNote).where(ReviewNote.id == review_id,
\*                          ReviewNote.user_id == current_user.id)
SelectOwned(table, review_id, user_id) ==
    {n \in table : n.id = review_id /\ n.user_id = user_id}

\* UPDATE review_notes SET final_memo = ... WHERE id = ..., committed
UpdateFinalMemo(table, review_id, final_memo) ==
    {IF n.id = review_id THEN [n EXCEPT !.final_memo = final_memo] ELSE n :
        n \in table}

\* --------------------------------------------------------------- state
VARIABLES
    max_retries,    \* settings.MAX_RETRIES
    retry_delay,    \* settings.RETRY_DELAY
    workload,       \* what the environment of this behaviour can produce
    payload,        \* what each request was sent with: its body and path
    extract_call,   \* a call of extract_profit_loss_rate on its own
    context_call,   \* a call of context_endpoint of the data processor
    pc,             \* position of each request in its handler
    request,        \* create_review: the validated body, the handler's parameter
    current_user,   \* user of the request (0 before authentication)
    objective_data, \* create_review: answer of the market-data service
    market_calls,   \* history: number of market-data calls the request made
    market_exc,     \* history: the exception its market-data call raised
    ai_input_data,  \* create_review: the prompt input compiled
    attempt,        \* get_ai_feedback: loop variable
    calls,          \* get_ai_feedback: outcome class of each model call made
    sleeps,         \* get_ai_feedback: duration of each asyncio.sleep made
    ai_response,    \* create_review: value returned by get_ai_feedback
    classified,     \* history: get_ai_feedback returned a parsed model answer
    new_trade,      \* create_review: the Trade object
    new_note,       \* create_review: the ReviewNote object
    review,         \* get_review, update_final_memo: the ReviewNote selected
    session,        \* the request's AsyncSession
    response,       \* what the caller receives: status and body
    failed_at,      \* step at which the request raised ("" if none)
    db_writes,      \* number of write statements the request has issued
    trades,         \* committed rows of table trades
    review_notes,   \* committed rows of table review_notes
    trade_id_seq,   \* sequence trades.id
    note_id_seq     \* sequence review_notes.id

\* what no step of a request changes
cfg_vars == <<max_retries, retry_delay, workload, payload, extract_call,
              context_call>>
mkt_vars == <<market_calls, market_exc>>
ai_vars == <<attempt, calls, sleeps>>
res_vars == <<ai_response, classified>>
db_vars == <<trades, review_notes, trade_id_seq, note_id_seq>>
obj_vars == <<new_trade, new_note, review, request>>
vars == <<max_retries, retry_delay, workload, payload, extract_call,
          context_call, pc,
          current_user, objective_data, market_calls, market_exc,
          ai_input_data, attempt, calls, sleeps, ai_response, classified,
          new_trade, new_note, review, request, session, response,
          failed_at, db_writes, trades, review_notes, trade_id_seq, note_id_seq>>

NoResponse == [status |-> 0, body |-> NoDict]
NoObject == [table |-> "", id |-> 0]

\* The workloads explored: one request under every retry budget up to the
\* default and every delay, or all requests at once under a budget of at
\* most one attempt (no backoff sleep happens then, so one delay).
InitOf(active, budgets, delays) ==
    /\ max_retries \in budgets
    /\ retry_delay \in delays
    /\ pc = [r \in Reqs |-> IF r \in active THEN "start" ELSE "closed"]
    /\ current_user = [r \in Reqs |-> 0]
    /\ objective_data = [r \in Reqs |-> NoDict]
    /\ market_calls = [r \in Reqs |-> 0]
    /\ market_exc = [r \in Reqs |-> ""]
    /\ ai_input_data = [r \in Reqs |-> NoDict]
    /\ attempt = [r \in Reqs |-> 0]
    /\ calls = [r \in Reqs |-> <<>>]
    /\ sleeps = [r \in Reqs |-> <<>>]
    /\ ai_response = [r \in Reqs |-> NoDict]
    /\ classified = [r \in Reqs |-> FALSE]
    /\ new_trade = [r \in Reqs |-> NoObject]
    /\ new_note = [r \in Reqs |-> NoObject]
    /\ review = [r \in Reqs |-> NoObject]
    /\ request = [r \in Reqs |-> NoDict]
    /\ session = [r \in Reqs |-> EmptySession]
    /\ response = [r \in Reqs |-> NoResponse]
    /\ failed_at = [r \in Reqs |-> ""]
    /\ db_writes = [r \in Reqs |-> 0]

\* The database before the first review is created
EmptyDatabase ==
    /\ trades = {}
    /\ review_notes = {}
    /\ trade_id_seq = 1
    /\ note_id_seq = 1

\* No call of extract_profit_loss_rate or of context_endpoint on its own
NoCall == [state |-> "idle"]

Init ==
    /\ \/ InitOf({1}, 0..MAX_RETRIES, 1..MaxDelay)
       \/ InitOf(Reqs, {0, 1}, {1})
    /\ EmptyDatabase
    /\ workload = BaseWorkload
    /\ payload = [r \in Reqs |-> TheRequest]
    /\ extract_call = NoCall
    /\ context_call = NoCall

\* raise HTTPException(status) at step: the request answers with status
Raise(r, step, code) ==
    /\ response' = [response EXCEPT ![r] = [status |-> code, body |-> NoDict]]
    /\ failed_at' = [failed_at EXCEPT ![r] = step]
    /\ pc' = [pc EXCEPT ![r] = "responded"]

\* ------------------------------------------------- auth.get_current_user
\* The endpoint a request is sent to
Operation(r) == Get(payload[r], "op", "create_review")

\* the user is selected; then the body is validated, and the handler is
\* entered with the validated model
Authenticate(r) ==
    /\ pc[r] = "start"
    /\ Operation(r) = "create_review"
    /\ \E u \in Users : current_user' = [current_user EXCEPT ![r] = u]
    /\ session' = [session EXCEPT ![r] = SessionExecute(@)]
    /\ LET parsed == ReviewCreateRequest(payload[r])
       IN IF parsed.ok
          THEN /\ request' = [request EXCEPT ![r] = parsed.value]
               /\ pc' = [pc EXCEPT ![r] = "market"]
               /\ UNCHANGED <<response, failed_at>>
          ELSE /\ Raise(r, "validate", HTTP_422_UNPROCESSABLE_ENTITY)
               /\ UNCHANGED request
    /\ UNCHANGED <<cfg_vars, objective_data, mkt_vars, ai_input_data,
                   ai_vars, res_vars, new_trade, new_note, review,
                   db_writes, db_vars>>

\* the token does not decode: credentials_exception before any query
AuthFail(r) ==
    /\ pc[r] = "start"
    /\ Raise(r, "auth", HTTP_401_UNAUTHORIZED)
    /\ UNCHANGED <<cfg_vars, current_user, objective_data, mkt_vars,
                   ai_input_data, ai_vars,
                   res_vars, obj_vars, session, db_writes, db_vars>>

\* ------------------------------------------ create_review, step 1
\* The outcomes the workload of the behaviour offers
Offered ==
    {[kind |-> k] : k \in workload.market_errors}
        \cup {[kind |-> "ok", data |-> d] : d \in workload.snapshots}

MarketCall(r) ==
    /\ pc[r] = "market"
    /\ market_calls' = [market_calls EXCEPT ![r] = @ + 1]
    /\ \E o \in Offered :
         /\ o \in MarketOutcomes
         /\ IF o.kind = "ok"
            THEN /\ objective_data' = [objective_data EXCEPT ![r] = o.data]
                 /\ pc' = [pc EXCEPT ![r] = "feedback"]
                 /\ UNCHANGED <<response, failed_at, market_exc>>
            ELSE /\ Raise(r, "market", MarketErrorStatus(o))
                 /\ market_exc' = [market_exc EXCEPT ![r] = o.kind]
                 /\ UNCHANGED objective_data
    /\ UNCHANGED <<cfg_vars, current_user, ai_input_data, ai_vars, res_vars,
                   obj_vars, session, db_writes, db_vars>>

\* ------------------------------------------ get_ai_feedback
\* the Trade added and flushed before the classification
StartFeedbackAfterFlush(r) ==
    /\ pc[r] = "feedback"
    /\ attempt' = [attempt EXCEPT ![r] = 0]
    /\ calls' = [calls EXCEPT ![r] = <<>>]
    /\ sleeps' = [sleeps EXCEPT ![r] = <<>>]
    /\ session' = [session EXCEPT ![r] =
          SessionFlushTrade(@, WithId(TradeObject(r, current_user[r],
                                                  request[r]),
                                      trade_id_seq))]
    /\ trade_id_seq' = trade_id_seq + 1
    /\ db_writes' = [db_writes EXCEPT ![r] = @ + 1]
    /\ pc' = [pc EXCEPT ![r] = "model_call"]
    /\ UNCHANGED <<cfg_vars, current_user, objective_data, mkt_vars,
                   ai_input_data, res_vars,
                   obj_vars, response, failed_at, trades, review_notes,
                   note_id_seq>>

\* ai_input_data is compiled (an exception of the compilation is handled
\* by no clause: the framework answers 500); get_ai_feedback is entered
\* and its loop starts
StartFeedback(r) ==
    /\ pc[r] = "feedback"
    /\ attempt' = [attempt EXCEPT ![r] = 0]
    /\ calls' = [calls EXCEPT ![r] = <<>>]
    /\ sleeps' = [sleeps EXCEPT ![r] = <<>>]
    /\ LET compiled == CompileInput(request[r], objective_data[r])
       IN IF compiled.raised
          THEN /\ Raise(r, "prompt", HTTP_500_INTERNAL_SERVER_ERROR)
               /\ UNCHANGED ai_input_data
          ELSE /\ ai_input_data' = [ai_input_data EXCEPT ![r] = compiled.value]
               /\ pc' = [pc EXCEPT ![r] = "model_call"]
               /\ UNCHANGED <<response, failed_at>>
    /\ UNCHANGED <<cfg_vars, current_user, objective_data, mkt_vars, res_vars,
                   obj_vars, session, db_writes, db_vars>>

\* The outcomes of a model call that carry no JSON object, and the outcomes
\* the workload of the behaviour offers
NoObjectOutcomes ==
    {o \in ProviderOutcomes : o.kind = "completion" => o.content.kind # "json"}
Answered ==
    NoObjectOutcomes
        \cup {[kind |-> "completion", content |-> [kind |-> "json", obj |-> obj]] :
                 obj \in workload.objects}

\* one iteration of the for loop: the model call and its handling
ModelCall(r) ==
    /\ pc[r] = "model_call"
    /\ attempt[r] < max_retries
    /\ \E o \in Answered :
         LET h == HandleAttempt(o, attempt[r], max_retries, retry_delay)
         IN /\ o \in ProviderOutcomes
            /\ calls' = [calls EXCEPT ![r] = Append(@, OutcomeClass(o))]
            /\ IF h.ret
               THEN /\ ai_response' = [ai_response EXCEPT ![r] = h.value]
                    /\ classified' = [classified EXCEPT ![r] =
                                         OutcomeClass(o) = "parsed"]
                    /\ pc' = [pc EXCEPT ![r] = "check"]
                    /\ UNCHANGED sleeps
               ELSE /\ sleeps' = [sleeps EXCEPT ![r] = Append(@, h.delay)]
                    /\ pc' = [pc EXCEPT ![r] = "backoff"]
                    /\ UNCHANGED res_vars
    /\ UNCHANGED <<cfg_vars, current_user, objective_data, mkt_vars,
                   ai_input_data, attempt, obj_vars,
                   session, response, failed_at, db_writes, db_vars>>

\* a retry that does not use up the budget
SleepDoneSameAttempt(r) ==
    /\ pc[r] = "backoff"
    /\ pc' = [pc EXCEPT ![r] = "model_call"]
    /\ UNCHANGED <<cfg_vars, current_user, objective_data, mkt_vars,
                   ai_input_data, attempt, calls,
                   sleeps, res_vars, obj_vars, session, response, failed_at,
                   db_writes, db_vars>>

\* asyncio.sleep returns: next iteration
SleepDone(r) ==
    /\ pc[r] = "backoff"
    /\ attempt' = [attempt EXCEPT ![r] = @ + 1]
    /\ pc' = [pc EXCEPT ![r] = "model_call"]
    /\ UNCHANGED <<cfg_vars, current_user, objective_data, mkt_vars,
                   ai_input_data, calls, sleeps,
                   res_vars, obj_vars, session, response, failed_at,
                   db_writes, db_vars>>

\* the return after the loop left out: the function returns None
RetriesExhaustedNoReturn(r) ==
    /\ pc[r] = "model_call"
    /\ attempt[r] >= max_retries
    /\ ai_response' = [ai_response EXCEPT ![r] = NoneObj]
    /\ pc' = [pc EXCEPT ![r] = "check"]
    /\ UNCHANGED <<cfg_vars, current_user, objective_data, mkt_vars,
                   ai_input_data, ai_vars,
                   classified, obj_vars,
                   session, response, failed_at, db_writes, db_vars>>

\* range(max_retries) is used up: the return after the loop
RetriesExhausted(r) ==
    /\ pc[r] = "model_call"
    /\ attempt[r] >= max_retries
    /\ ai_response' = [ai_response EXCEPT ![r] = ErrExhausted]
    /\ pc' = [pc EXCEPT ![r] = "check"]
    /\ UNCHANGED <<cfg_vars, current_user, objective_data, mkt_vars,
                   ai_input_data, ai_vars,
                   classified, obj_vars,
                   session, response, failed_at, db_writes, db_vars>>

\* ------------------------------------------ create_review, step 3
\* the test of the error key left out: persistence follows whatever
\* get_ai_feedback returned
CheckFeedbackNoTest(r) ==
    /\ pc[r] = "check"
    /\ pc' = [pc EXCEPT ![r] = "trade"]
    /\ attempt' = [attempt EXCEPT ![r] = 0]
    /\ calls' = [calls EXCEPT ![r] = <<>>]
    /\ sleeps' = [sleeps EXCEPT ![r] = <<>>]
    /\ UNCHANGED <<cfg_vars, current_user, objective_data, mkt_vars,
                   ai_input_data, res_vars, response, failed_at,
                   obj_vars, session, db_writes, db_vars>>

\* if ai_response.get("error"): raise 500; the callee's locals are gone
CheckFeedback(r) ==
    /\ pc[r] = "check"
    /\ IF HasError(ai_response[r])
       THEN Raise(r, "classify", HTTP_500_INTERNAL_SERVER_ERROR)
       ELSE /\ pc' = [pc EXCEPT ![r] = "trade"]
            /\ UNCHANGED <<response, failed_at>>
    /\ attempt' = [attempt EXCEPT ![r] = 0]
    /\ calls' = [calls EXCEPT ![r] = <<>>]
    /\ sleeps' = [sleeps EXCEPT ![r] = <<>>]
    /\ UNCHANGED <<cfg_vars, current_user, objective_data, mkt_vars,
                   ai_input_data, res_vars,
                   obj_vars, session, db_writes, db_vars>>

\* ------------------------------------------ create_review, step 4
PersistSteps == {"add_trade", "flush", "add_note", "commit", "refresh"}

\* except Exception: await db.rollback(); raise HTTPException(500)
PersistFail(r, step) ==
    /\ session' = [session EXCEPT ![r] = SessionRollback(@)]
    /\ Raise(r, step, HTTP_500_INTERNAL_SERVER_ERROR)

\* new_trade = Trade(...); db.add(new_trade); await db.flush()
AddTradeFlush(r) ==
    /\ pc[r] = "trade"
    /\ \E fault \in {"none", "add_trade", "flush"} :
         LET obj == TradeObject(r, current_user[r], request[r])
             row == WithId(obj, trade_id_seq)
         IN CASE fault = "none" ->
                 /\ new_trade' = [new_trade EXCEPT ![r] = row]
                 /\ session' = [session EXCEPT ![r] =
                                   SessionFlushTrade(SessionAdd(@, obj), row)]
                 /\ trades' = FlushTrades(trades, session'[r])
                 /\ trade_id_seq' = trade_id_seq + 1
                 /\ db_writes' = [db_writes EXCEPT ![r] = @ + 1]
                 /\ pc' = [pc EXCEPT ![r] = "note"]
                 /\ UNCHANGED <<response, failed_at>>
              [] fault = "flush" ->
                 /\ PersistFail(r, "flush")
                 /\ db_writes' = [db_writes EXCEPT ![r] = @ + 1]
                 /\ UNCHANGED <<new_trade, trades, trade_id_seq>>
              [] OTHER ->
                 /\ PersistFail(r, "add_trade")
                 /\ UNCHANGED <<new_trade, trades, trade_id_seq, db_writes>>
    /\ UNCHANGED <<request, cfg_vars, current_user, objective_data, mkt_vars,
                   ai_input_data, ai_vars,
                   res_vars, new_note, review, review_notes, note_id_seq>>

\* new_note = ReviewNote(...); db.add(new_note); await db.commit()
AddNoteCommit(r) ==
    /\ pc[r] = "note"
    /\ \E fault \in {"none", "add_note", "commit"} :
         LET obj == NoteObject(r, current_user[r], new_trade[r].id,
                               request[r], objective_data[r],
                               ai_response[r])
             row == WithId(obj, note_id_seq)
             flushed == SessionFlushNote(SessionAdd(session[r], obj), row)
         IN CASE fault = "none" ->
                 /\ new_note' = [new_note EXCEPT ![r] = row]
                 /\ trades' = CommitTrades(trades, flushed)
                 /\ review_notes' = CommitNotes(review_notes, flushed)
                 /\ session' = [session EXCEPT ![r] = EmptySession]
                 /\ note_id_seq' = note_id_seq + 1
                 /\ db_writes' = [db_writes EXCEPT ![r] = @ + 1]
                 /\ pc' = [pc EXCEPT ![r] = "refresh"]
                 /\ UNCHANGED <<response, failed_at>>
              [] fault = "commit" ->
                 /\ PersistFail(r, "commit")
                 /\ db_writes' = [db_writes EXCEPT ![r] = @ + 1]
                 /\ UNCHANGED <<new_note, trades, review_notes, note_id_seq>>
              [] OTHER ->
                 /\ PersistFail(r, "add_note")
                 /\ UNCHANGED <<new_note, trades, review_notes, note_id_seq,
                                db_writes>>
    /\ UNCHANGED <<request, cfg_vars, current_user, objective_data, mkt_vars,
                   ai_input_data, ai_vars,
                   res_vars, new_trade, review, trade_id_seq>>

\* await db.refresh(new_note): a SELECT in a new transaction
Refresh(r) ==
    /\ pc[r] = "refresh"
    /\ \E ok \in BOOLEAN :
         IF ok
         THEN /\ session' = [session EXCEPT ![r] = SessionExecute(@)]
              /\ pc' = [pc EXCEPT ![r] = "respond"]
              /\ UNCHANGED <<response, failed_at>>
         ELSE PersistFail(r, "refresh")
    /\ UNCHANGED <<cfg_vars, current_user, objective_data, mkt_vars,
                   ai_input_data, ai_vars,
                   res_vars, obj_vars, db_writes, db_vars>>

\* ------------------------------------------ create_review, step 5
\* return AIAnalysisResponse(...); a validation error is a 500
Respond(r) ==
    /\ pc[r] = "respond"
    /\ LET out == AIAnalysisResponse(ai_response[r])
       IN IF out.valid
          THEN /\ response' = [response EXCEPT ![r] =
                      [status |-> HTTP_201_CREATED, body |-> out.body]]
               /\ pc' = [pc EXCEPT ![r] = "responded"]
               /\ UNCHANGED failed_at
          ELSE Raise(r, "respond", HTTP_500_INTERNAL_SERVER_ERROR)
    /\ UNCHANGED <<cfg_vars, current_user, objective_data, mkt_vars,
                   ai_input_data, ai_vars,
                   res_vars, obj_vars, session, db_writes, db_vars>>

\* ------------------------------------------ session.get_db teardown
\* except: rollback; finally: session.close()
CloseSession(r) ==
    /\ pc[r] = "responded"
    /\ session' = [session EXCEPT ![r] = SessionRollback(@)]
    /\ pc' = [pc EXCEPT ![r] = "closed"]
    \* the handler's frame is gone
    /\ current_user' = [current_user EXCEPT ![r] = 0]
    /\ objective_data' = [objective_data EXCEPT ![r] = NoDict]
    /\ ai_input_data' = [ai_input_data EXCEPT ![r] = NoDict]
    /\ ai_response' = [ai_response EXCEPT ![r] = NoDict]
    /\ new_trade' = [new_trade EXCEPT ![r] = NoObject]
    /\ new_note' = [new_note EXCEPT ![r] = NoObject]
    /\ review' = [review EXCEPT ![r] = NoObject]
    /\ request' = [request EXCEPT ![r] = NoDict]
    /\ UNCHANGED <<cfg_vars, mkt_vars, ai_vars, classified, response,
                   failed_at, db_writes, db_vars>>

\* ------------------------------------------ reads
\* list_reviews: the caller's notes, as a new session sees the table
list_reviews(u) == {n \in review_notes : n.user_id = u}

\* The Trade rows a new session sees
visible_trades == trades

\* ------------------------------------------------------- specification
Next ==
    \E r \in Reqs :
        \/ Authenticate(r)
        \/ AuthFail(r)
        \/ MarketCall(r)
        \/ StartFeedback(r)
        \/ ModelCall(r)
        \/ SleepDone(r)
        \/ RetriesExhausted(r)
        \/ CheckFeedback(r)
        \/ AddTradeFlush(r)
        \/ AddNoteCommit(r)
        \/ Refresh(r)
        \/ Respond(r)
        \/ CloseSession(r)

Spec == Init /\ [][Next]_vars

\* ------------------------------------------- one request, varied inputs
\* extract_profit_loss_rate called on its own
Extract ==
    /\ extract_call.state = "pending"
    /\ extract_call' =
          [state |-> "returned", trade_info |-> extract_call.trade_info,
           result |-> extract_profit_loss_rate(extract_call.trade_info)]
    /\ UNCHANGED <<max_retries, retry_delay, workload, payload, context_call,
                   pc, current_user, objective_data, mkt_vars, ai_input_data,
                   ai_vars, res_vars, obj_vars, session, response, failed_at,
                   db_writes, db_vars>>

\* The trade-info texts enumerated: every text of at most MaxLen characters
\* of the pattern's alphabet, and the examples of the schema
PatternChars == {"(", ")", "%", "-", ".", "5", "A"}
ExampleTexts ==
    {<<"K", "R", " ", "(", "-", "6", ".", "5", "%", ")">>,
     <<"A", "A", "P", "L", " ", "(", "+", "1", "2", ".", "3", "%", ")">>,
     <<"(", "0", "0", "7", ".", "%", ")">>,
     <<"(", "5", "%", " ", "(", "+", "2", ".", "5", "0", "%", ")", "(", "9", "%", ")">>}
TradeInfos ==
    UNION {[1..n -> PatternChars] : n \in 0..MaxLen} \cup ExampleTexts

\* One request against an environment richer in one respect (the answers
\* of the model, the answers or the failures of the market-data service,
\* or the body sent), or a call of extract_profit_loss_rate on its own.
InitInput ==
    \/ /\ InitOf({1}, {0, 2}, {1})
       /\ workload \in {ObjectsWorkload, SnapshotsWorkload, MarketErrorsWorkload}
       /\ EmptyDatabase
       /\ payload = [r \in Reqs |-> TheRequest]
       /\ extract_call = NoCall
       /\ context_call = NoCall
    \/ /\ InitOf({1}, {1}, {1})
       /\ workload = BaseWorkload
       /\ EmptyDatabase
       /\ \E body \in RequestBodies :
             payload = [r \in Reqs |-> IF r = 1 THEN body ELSE TheRequest]
       /\ extract_call = NoCall
       /\ context_call = NoCall
    \/ /\ InitOf({}, {1}, {1})
       /\ workload = BaseWorkload
       /\ EmptyDatabase
       /\ payload = [r \in Reqs |-> TheRequest]
       /\ \E t \in TradeInfos :
             extract_call = [state |-> "pending", trade_info |-> t]
       /\ context_call = NoCall

NextInput == Next \/ Extract

InputSpec == InitInput /\ [][NextInput]_vars

\* ------------------------------------- get_review and update_final_memo
\* FinalMemoUpdate(**body)
FinalMemoUpdate(body) ==
    IF Len(body.final_memo) <= FINAL_MEMO_MAX_LENGTH
    THEN [ok |-> TRUE, value |-> [final_memo |-> body.final_memo]]
    ELSE [ok |-> FALSE]

\* the user is selected; the body of the PATCH is validated
AuthenticateReview(r) ==
    /\ pc[r] = "start"
    /\ Operation(r) \in {"get_review", "update_final_memo"}
    /\ \E u \in Users : current_user' = [current_user EXCEPT ![r] = u]
    /\ session' = [session EXCEPT ![r] = SessionExecute(@)]
    /\ IF Operation(r) = "update_final_memo" /\ ~FinalMemoUpdate(payload[r]).ok
       THEN Raise(r, "validate", HTTP_422_UNPROCESSABLE_ENTITY)
       ELSE /\ pc' = [pc EXCEPT ![r] = "select"]
            /\ UNCHANGED <<response, failed_at>>
    /\ UNCHANGED <<cfg_vars, objective_data, mkt_vars, ai_input_data,
                   ai_vars, res_vars, obj_vars, db_writes, db_vars>>

\* result = await db.execute(select ...); review = scalar_one_or_none();
\* if not review: raise 404
SelectReview(r) ==
    /\ pc[r] = "select"
    /\ LET found == SelectOwned(review_notes, payload[r].review_id,
                                current_user[r])
       IN IF found = {}
          THEN /\ Raise(r, "not_found", HTTP_404_NOT_FOUND)
               /\ UNCHANGED review
          ELSE /\ review' = [review EXCEPT ![r] = CHOOSE n \in found : TRUE]
               /\ pc' = [pc EXCEPT ![r] =
                            IF Operation(r) = "update_final_memo"
                            THEN "memo_commit" ELSE "serialize"]
               /\ UNCHANGED <<response, failed_at>>
    /\ UNCHANGED <<request, cfg_vars, current_user, objective_data, mkt_vars,
                   ai_input_data, ai_vars, res_vars, new_trade, new_note,
                   session, db_writes, db_vars>>

\* review.final_memo = memo_data.final_memo; db.add(review);
\* await db.commit()
CommitMemo(r) ==
    /\ pc[r] = "memo_commit"
    /\ LET final_memo == FinalMemoUpdate(payload[r]).value.final_memo
       IN \E fault \in {"none", "commit"} :
            IF fault = "none"
            THEN /\ review_notes' =
                      UpdateFinalMemo(review_notes, review[r].id, final_memo)
                 /\ review' = [review EXCEPT ![r].final_memo = final_memo]
                 /\ session' = [session EXCEPT ![r] = EmptySession]
                 /\ pc' = [pc EXCEPT ![r] = "memo_refresh"]
                 /\ UNCHANGED <<response, failed_at>>
            ELSE /\ PersistFail(r, "commit")
                 /\ UNCHANGED <<review, review_notes>>
    /\ db_writes' = [db_writes EXCEPT ![r] = @ + 1]
    /\ UNCHANGED <<request, cfg_vars, current_user, objective_data, mkt_vars,
                   ai_input_data, ai_vars, res_vars, new_trade, new_note,
                   trades, trade_id_seq, note_id_seq>>

\* await db.refresh(review): the row as it is committed now
RefreshMemo(r) ==
    /\ pc[r] = "memo_refresh"
    /\ \E ok \in BOOLEAN :
         IF ok
         THEN /\ review' = [review EXCEPT ![r] =
                     CHOOSE n \in review_notes : n.id = review[r].id]
              /\ session' = [session EXCEPT ![r] = SessionExecute(@)]
              /\ pc' = [pc EXCEPT ![r] = "serialize"]
              /\ UNCHANGED <<response, failed_at>>
         ELSE /\ PersistFail(r, "refresh")
              /\ UNCHANGED review
    /\ UNCHANGED <<request, cfg_vars, current_user, objective_data, mkt_vars,
                   ai_input_data, ai_vars, res_vars, new_trade, new_note,
                   db_writes, db_vars>>

\* return review: serialised through response_model; a validation error
\* of the response is a 500
RespondReview(r) ==
    /\ pc[r] = "serialize"
    /\ LET out == ReviewNoteResponse(review[r])
       IN IF out.valid
          THEN /\ response' = [response EXCEPT ![r] =
                      [status |-> HTTP_200_OK, body |-> out.body]]
               /\ pc' = [pc EXCEPT ![r] = "responded"]
               /\ UNCHANGED failed_at
          ELSE Raise(r, "respond", HTTP_500_INTERNAL_SERVER_ERROR)
    /\ UNCHANGED <<cfg_vars, current_user, objective_data, mkt_vars,
                   ai_input_data, ai_vars, res_vars, obj_vars, session,
                   db_writes, db_vars>>

\* The rows a successful create_review of user user_id has left
SeedTrade(user_id, id) ==
    WithId(TradeObject(0, user_id, ReviewCreateRequest(TheRequest).value), id)
SeedNote(user_id, id) ==
    WithId(NoteObject(0, user_id, id, ReviewCreateRequest(TheRequest).value,
                      FullSnapshot, GoodObject), id)

\* The database after the users in owners created one review each
SeededDatabase(owners) ==
    /\ trades = {SeedTrade(owners[i], i) : i \in 1..Len(owners)}
    /\ review_notes = {SeedNote(owners[i], i) : i \in 1..Len(owners)}
    /\ trade_id_seq = Len(owners) + 1
    /\ note_id_seq = Len(owners) + 1

\* Requests to the two endpoints: review 1 exists always, review 2 in some
\* databases only
ReviewIds == {1, 2}
FinalMemos == {Str(3, "a"), Str(4, "b"), Str(FINAL_MEMO_MAX_LENGTH + 1, "c")}
ReviewRequests ==
    {[op |-> "get_review", review_id |-> i] : i \in ReviewIds}
        \cup {[op |-> "update_final_memo", review_id |-> i, final_memo |-> m] :
                 i \in ReviewIds, m \in FinalMemos}
SameReviewRequests ==
    {q \in ReviewRequests :
        q.review_id = 1 /\ (q.op = "update_final_memo" => Len(q.final_memo) <= 4)}

\* One request of any kind, or all requests at once on review 1, against a
\* database in which user 1 owns review 1 and user 2, if it exists, review 2
InitReview ==
    /\ workload = BaseWorkload
    /\ extract_call = NoCall
    /\ context_call = NoCall
    /\ \E owners \in {<<1>>, <<1, 2>>} : SeededDatabase(owners)
    /\ \/ /\ InitOf({1}, {MAX_RETRIES}, {1})
          /\ \E q \in ReviewRequests :
                payload = [r \in Reqs |-> IF r = 1 THEN q ELSE TheRequest]
       \/ /\ InitOf(Reqs, {MAX_RETRIES}, {1})
          /\ payload \in [Reqs -> SameReviewRequests]

NextReview ==
    \E r \in Reqs :
        \/ AuthenticateReview(r)
        \/ AuthFail(r)
        \/ SelectReview(r)
        \/ CommitMemo(r)
        \/ RefreshMemo(r)
        \/ RespondReview(r)
        \/ CloseSession(r)

ReviewSpec == InitReview /\ [][NextReview]_vars

\* =================================================================
\* Properties
\* =================================================================
Last(seq) == seq[Len(seq)]

RECURSIVE SumSeq(_)
SumSeq(seq) == IF seq = <<>> THEN 0 ELSE seq[1] + SumSeq(Tail(seq))

\* 1 + 2 + ... + n
RECURSIVE Triangle(_)
Triangle(n) == IF n <= 0 THEN 0 ELSE n + Triangle(n - 1)

\* The committed rows request r wrote, as any new session reads them
TradesOf(r) == {t \in visible_trades : t.req = r}
NotesOf(r) == UNION {{n \in list_reviews(u) : n.req = r} : u \in Users}

\* C1: every committed ReviewNote references a committed Trade of the same
\* request and was written by a request whose classification succeeded; no
\* Trade is committed without its ReviewNote; the two rows of a request are
\* both committed or both absent.
C1_NotePairedWithTrade ==
    /\ \A n \in review_notes :
          /\ \E t \in trades : t.id = n.trade_id /\ t.req = n.req
          /\ classified[n.req]
          /\ failed_at[n.req] \notin {"auth", "market", "classify"}
    /\ \A t \in trades : \E n \in review_notes : n.trade_id = t.id
    /\ \A r \in Reqs : (TradesOf(r) = {}) <=> (NotesOf(r) = {})

\* one request has committed its pair while another holds a flushed,
\* uncommitted Trade
C1_Witness ==
    \E r1, r2 \in Reqs :
        /\ r1 # r2
        /\ NotesOf(r1) # {} /\ TradesOf(r1) # {}
        /\ pc[r2] = "note" /\ session[r2].ins_trades # {}

\* C2: when the commit of create_review fails, neither row of the request
\* is visible to a read afterwards, and a Trade that is flushed but not
\* committed is visible to no read.
C2_CommitFailureLeavesNothing ==
    \A r \in Reqs :
        /\ failed_at[r] = "commit" =>
              /\ TradesOf(r) = {} /\ NotesOf(r) = {}
              /\ session[r].ins_trades = {} /\ session[r].ins_notes = {}
        /\ pc[r] = "note" =>
              /\ session[r].ins_trades # {}
              /\ TradesOf(r) = {} /\ NotesOf(r) = {}

\* a commit has failed after the flush while the other request committed
C2_Witness ==
    \E r1, r2 \in Reqs :
        /\ r1 # r2
        /\ failed_at[r1] = "commit" /\ db_writes[r1] = 2
        /\ response[r1].status = HTTP_500_INTERNAL_SERVER_ERROR
        /\ NotesOf(r2) # {}

\* C3: whenever create_review answers with the persistence error (an
\* exception in add, flush, commit or refresh), no row of the request is
\* visible afterwards.
C3_PersistenceErrorLeavesNothing ==
    \A r \in Reqs :
        (failed_at[r] \in PersistSteps
            /\ response[r].status = HTTP_500_INTERNAL_SERVER_ERROR)
        => (TradesOf(r) = {} /\ NotesOf(r) = {})

\* C4: a request that aborted at the market-data call or at the
\* classification issued no database write and has no row, committed or
\* pending.
C4_AbortBeforePersistWritesNothing ==
    \A r \in Reqs :
        failed_at[r] \in {"market", "classify"} =>
            /\ db_writes[r] = 0
            /\ TradesOf(r) = {} /\ NotesOf(r) = {}
            /\ session[r].new = {}
            /\ session[r].ins_trades = {} /\ session[r].ins_notes = {}

\* one request aborted at the market-data call and one at classification,
\* both answered
C4_Witness ==
    \E r1, r2 \in Reqs :
        /\ failed_at[r1] = "market" /\ failed_at[r2] = "classify"
        /\ response[r1].status = HTTP_503_SERVICE_UNAVAILABLE
        /\ response[r2].status = HTTP_500_INTERNAL_SERVER_ERROR
        /\ pc[r1] = "closed" /\ pc[r2] = "closed"

\* The classes of all calls before the last one
Earlier(seq) == {seq[i] : i \in 1..(Len(seq) - 1)}

\* get_ai_feedback has made a call whose class is c and it was its last
LastCallIs(r, c) == calls[r] # <<>> /\ Last(calls[r]) = c

\* After a failed attempt that is not the last: the function sleeps, or has
\* slept and is about to make its next call; one sleep per call made
Retrying(r) ==
    /\ Len(calls[r]) < max_retries
    /\ Len(sleeps[r]) = Len(calls[r])
    /\ \/ pc[r] = "backoff" /\ attempt[r] = Len(calls[r]) - 1
       \/ pc[r] = "model_call" /\ attempt[r] = Len(calls[r])

\* sleeps are retry_delay * 1, retry_delay * 2, ... in this order
LinearBackoff(seq) == \A i \in 1..Len(seq) : seq[i] = retry_delay * i

StrictlyIncreasing(seq) == \A i \in 1..(Len(seq) - 1) : seq[i] < seq[i + 1]

C6_AllTimeouts ==
    \A r \in Reqs :
        (calls[r] # <<>> /\ Earlier(calls[r]) \cup {Last(calls[r])} = {"timeout"}) =>
            /\ Len(calls[r]) <= max_retries
            /\ (Len(calls[r]) < max_retries) => Retrying(r)
            /\ (Len(calls[r]) = max_retries) =>
                  /\ pc[r] = "check"
                  /\ Len(sleeps[r]) = max_retries - 1
                  /\ ai_response[r] = ErrTimeout
                  /\ ai_response[r] # ErrExhausted
                  /\ ~classified[r]

\* the default budget: three calls, all timed out, function returned
C6_Witness ==
    \E r \in Reqs :
        /\ max_retries = MAX_RETRIES
        /\ calls[r] = <<"timeout", "timeout", "timeout">>
        /\ Len(sleeps[r]) = 2
        /\ pc[r] = "check" /\ ai_response[r] = ErrTimeout

\* C7: a bad-request error on any attempt ends get_ai_feedback at once: it
\* is the last call made, no sleep follows it, and the function has returned
\* the bad-request failure.
C7_BadRequestIsTerminal ==
    \A r \in Reqs :
        \A i \in 1..Len(calls[r]) :
            calls[r][i] = "bad_request" =>
                /\ i = Len(calls[r])
                /\ Len(sleeps[r]) = i - 1
                /\ pc[r] = "check"
                /\ ai_response[r] = ErrBadRequest

\* a bad request on the first attempt, and one on a later attempt that is
\* not the last of the budget
C7_Witness ==
    \E r \in Reqs :
        /\ max_retries = 3
        /\ calls[r] = <<"rate_limit", "bad_request">>
        /\ pc[r] = "check" /\ Len(sleeps[r]) = 1

\* The failure get_ai_feedback returns for each class of a failed last call
ReasonsOf(c) ==
    CASE c = "timeout"     -> {ErrTimeout}
      [] c = "bad_request" -> {ErrBadRequest}
      [] c = "rate_limit"  -> {ErrRateLimit}
      [] c = "api_error"   -> {ErrProcessing("APIError")}
      [] c = "unparsable"  -> {ErrProcessing("TypeError"),
                               ErrProcessing("JSONDecodeError")}
      [] OTHER             -> {}

Transient == {"timeout", "rate_limit", "api_error", "unparsable"}

\* C8: a rate-limit error or any other exception is handled as a timeout
\* is: on an attempt that is not the last the function sleeps
\* retry_delay*(attempt+1) and goes on; on the last attempt it returns the
\* rate-limit failure, respectively the failure carrying the error text;
\* the failure returned depends on the last attempt only.  (The sleep after
\* the call numbered attempt+1 lasts retry_delay*(attempt+1).)
C8_RateLimitAndOtherRetry ==
    \A r \in Reqs :
        /\ (calls[r] # <<>> /\ Last(calls[r]) \in Transient) =>
              IF Len(calls[r]) < max_retries
              THEN /\ Retrying(r)
                   /\ Last(sleeps[r]) = retry_delay * Len(calls[r])
              ELSE /\ Len(calls[r]) = max_retries
                   /\ pc[r] = "check"
                   /\ Len(sleeps[r]) = max_retries - 1
                   /\ ai_response[r] \in ReasonsOf(Last(calls[r]))
        /\ (pc[r] = "check" /\ calls[r] # <<>> /\ Last(calls[r]) # "parsed") =>
              ai_response[r] \in ReasonsOf(Last(calls[r]))

\* rate limit, other exception, rate limit: the rate-limit failure
C8_Witness ==
    \E r \in Reqs :
        /\ calls[r] = <<"rate_limit", "api_error", "rate_limit">>
        /\ pc[r] = "check" /\ ai_response[r] = ErrRateLimit
        /\ sleeps[r] = <<retry_delay, retry_delay * 2>>

\* C9: a completion whose body is no JSON text (or is absent) is a
\* transient failure: before the last attempt the function sleeps and has a
\* further attempt left; on the last attempt it returns a failure; such a
\* body is never handed to create_review as a success.
C9_UnparsableBodyRetried ==
    \A r \in Reqs :
        /\ LastCallIs(r, "unparsable") =>
              \/ Retrying(r)
              \/ /\ pc[r] = "check"
                 /\ Len(calls[r]) = max_retries
                 /\ HasError(ai_response[r])
                 /\ ~classified[r]
        /\ pc[r] \in {"trade", "note", "refresh", "respond"} => classified[r]

\* an absent or malformed body on the first attempt, a parsed one on the
\* second
C9_Witness ==
    \E r \in Reqs :
        /\ calls[r] = <<"unparsable", "parsed">>
        /\ pc[r] = "check" /\ classified[r]
        /\ Len(sleeps[r]) = 1

\* Steps left in the retry loop: it decreases with every step of the loop
LoopMeasure(r) ==
    IF pc[r] = "model_call" THEN 2 * (max_retries - attempt[r]) + 2
    ELSE IF pc[r] = "backoff" THEN 2 * (max_retries - attempt[r]) + 1
    ELSE 0

C10_Bounds ==
    \A r \in Reqs :
        /\ Len(calls[r]) <= max_retries
        /\ Len(sleeps[r]) <= (IF max_retries = 0 THEN 0 ELSE max_retries - 1)
        /\ Len(sleeps[r]) <= Len(calls[r])
        /\ (Len(calls[r]) = max_retries) => pc[r] # "backoff"
        /\ SumSeq(sleeps[r]) <= retry_delay * Triangle(max_retries - 1)

C10_Decreases ==
    \A r \in Reqs :
        (pc[r] \in {"model_call", "backoff"} /\ pc'[r] # pc[r]) =>
            /\ LoopMeasure(r)' < LoopMeasure(r)
            /\ LoopMeasure(r)' >= 0

NullTexts == {"null", "Null", "NULL", "none", "None", "NONE", ""}

\* C11: the secondary_type persisted in a ReviewNote and the secondary_type
\* create_review returns are never one of the texts "null", "none" or ""
\* (in any case): such a text is turned into null before it is used.
C11_SecondaryNeverNullText ==
    /\ \A n \in review_notes : n.secondary_type \notin NullTexts
    /\ \A r \in Reqs :
          response[r].status = HTTP_201_CREATED =>
              response[r].body.secondary_type \notin NullTexts

\* C12: an answer whose primary_type is missing, null or empty is never
\* returned by get_ai_feedback as a success, and no ReviewNote is persisted
\* without a non-empty primary_type.
C12_PrimaryTypeMandatory ==
    /\ \A r \in Reqs :
          (pc[r] = "check" /\ classified[r] /\ ~HasError(ai_response[r])) =>
              Truthy(Get(ai_response[r], "primary_type", None))
    /\ \A n \in review_notes : Truthy(n.primary_type)

\* The market-data failures that mean the provider cannot be reached or
\* answered with a non-success status
Unavailable == {"connect_error", "status_error"}

\* C13: when the market-data provider cannot be reached or answers with a
\* non-success status, create_review answers 503 in both cases; and a
\* request makes exactly one market-data call (none before it is
\* authenticated and validated).
C13_UnavailableIs503 ==
    \A r \in Reqs :
        /\ market_exc[r] \in Unavailable =>
              response[r].status = HTTP_503_SERVICE_UNAVAILABLE
        /\ market_calls[r] =
              (IF pc[r] \in {"start", "market"}
                  \/ failed_at[r] \in {"auth", "validate"}
                  \/ (pc[r] = "closed" /\ response[r] = NoResponse)
               THEN 0 ELSE 1)

\* The timeouts of the market-data call, one per phase
MarketTimeouts ==
    {"connect_timeout", "write_timeout", "read_timeout", "pool_timeout"}

C14_MarketTimeoutIs504 ==
    \A r \in Reqs :
        market_exc[r] \in MarketTimeouts =>
            response[r].status = HTTP_504_GATEWAY_TIMEOUT

C14_ModelTimeoutIs504 ==
    \A r \in Reqs :
        (/\ pc[r] = "check" /\ pc'[r] = "responded"
         /\ calls[r] # <<>> /\ Range(calls[r]) = {"timeout"}) =>
            response'[r].status = HTTP_504_GATEWAY_TIMEOUT

\* C14: a timeout of the market-data call in any phase (connect, write,
\* read, pool), and a classification whose every attempt timed out, are
\* answered with 504, a status other than that of unavailability and that
\* of the other classification failures.
C14_TimeoutIs504 ==
    /\ []C14_MarketTimeoutIs504
    /\ [][C14_ModelTimeoutIs504]_vars

\* A sub-section of a market-data answer that is absent or an error marker
Broken(data, key) == key \notin DOMAIN data \/ "error" \in DOMAIN data[key]

\* The titles of the first three news items
FirstTitles(news) ==
    [list |-> [i \in 1..(IF Len(news.list) < 3 THEN Len(news.list) ELSE 3)
                  |-> news.list[i].title]]

\* The compiled prompt input holds the placeholder for exactly the broken
\* sub-sections of the answer it was compiled from
DegradedExactly(data, input) ==
    LET o == input.objective_data_at_sell_or_buy
    IN /\ o.chart_indicators =
             (IF Broken(data, "chart_indicators") THEN "N/A"
              ELSE data.chart_indicators.rsi_status)
       /\ o.related_news =
             (IF Broken(data, "related_news") THEN [list |-> <<>>]
              ELSE FirstTitles(data.related_news))
       /\ o.market_indicators =
             (IF Broken(data, "market_indicators") THEN "N/A"
              ELSE data.market_indicators.status)

\* C15: whatever sub-sections of the market-data answer are absent or error
\* markers, the compilation of the prompt input raises nothing, the request
\* goes on to the model call, and the input holds "N/A" (no headline for
\* the news) for exactly those sub-sections and the values of the others.
C15_PromptDegrades ==
    \A r \in Reqs :
        /\ failed_at[r] # "prompt"
        /\ (objective_data[r] # NoDict /\ pc[r] \notin {"feedback", "responded"})
              => ai_input_data[r] # NoDict
        /\ ai_input_data[r] # NoDict =>
              DegradedExactly(objective_data[r], ai_input_data[r])

\* t is '(' , an optional sign, digits, optionally '.' and digits, '%' ')'
IsPercent(t) ==
    /\ Len(t) >= 4
    /\ t[1] = "(" /\ t[Len(t) - 1] = "%" /\ t[Len(t)] = ")"
    /\ LET inner == SubSeq(t, 2, Len(t) - 2)
           unsigned == IF inner[1] \in {"+", "-"} THEN Tail(inner) ELSE inner
       IN /\ unsigned # <<>>
          /\ IsDigit(unsigned[1])
          /\ \A i \in 1..Len(unsigned) : IsDigit(unsigned[i]) \/ unsigned[i] = "."
          /\ Cardinality({i \in 1..Len(unsigned) : unsigned[i] = "."}) <= 1

\* Where the substrings of that form are in v
Percents(v) ==
    {p \in (1..Len(v)) \X (1..Len(v)) :
        p[1] <= p[2] /\ IsPercent(SubSeq(v, p[1], p[2]))}

RECURSIVE Pow10(_)
Pow10(n) == IF n = 0 THEN 1 ELSE 10 * Pow10(n - 1)

\* The number a sequence of digits (with dots skipped) reads as
RECURSIVE Reads(_, _)
Reads(ds, acc) ==
    IF ds = <<>> THEN acc
    ELSE IF Head(ds) = "." THEN Reads(Tail(ds), acc)
    ELSE Reads(Tail(ds), 10 * acc + (CHOOSE d \in 0..9 : DigitChars[d + 1] = Head(ds)))

\* rate is the signed decimal that text denotes
Denotes(rate, text) ==
    LET unsigned == IF text[1] \in {"+", "-"} THEN Tail(text) ELSE text
        dots == {i \in 1..Len(unsigned) : unsigned[i] = "."}
        places == IF dots = {} THEN 0
                  ELSE Len(unsigned) - (CHOOSE i \in dots : TRUE)
        n == Reads(unsigned, 0)
    IN /\ DOMAIN rate = {"mant", "exp"}
       /\ rate.exp \in 0..places
       /\ rate.mant * Pow10(places) =
             (IF text[1] = "-" THEN 0 - n ELSE n) * Pow10(rate.exp)

\* rate is what the claim says of trade-info v: the decimal of its leftmost
\* parenthesized percentage, absent when it has none
IsRateOf(rate, v) ==
    IF Percents(v) = {} THEN rate = NoneObj
    ELSE LET p == CHOOSE p \in Percents(v) : \A q \in Percents(v) : p[1] <= q[1]
         IN Denotes(rate, SubSeq(v, p[1] + 1, p[2] - 2))

\* C16: extract_profit_loss_rate returns, for every trade-info text, the
\* signed decimal of the leftmost substring '(' [sign] digits ['.' digits]
\* '%' ')', and None when there is no such substring; every Trade
\* create_review writes, flushed or committed, carries that value of the
\* request's trade-info as its profit_loss_rate.
C16_ExtractLeftmostPercent ==
    /\ extract_call.state = "returned" =>
          IsRateOf(extract_call.result, extract_call.trade_info)
    /\ \A r \in Reqs :
          \A t \in TradesOf(r) \cup session[r].ins_trades :
              IsRateOf(t.profit_loss_rate,
                       ReviewCreateRequest(payload[t.req]).value.trade_info)

\* the text with three parenthesized groups, of which the second is the
\* first percentage: 2.50 is returned, not 9
C16_Witness ==
    /\ extract_call.state = "returned"
    /\ Cardinality(Percents(extract_call.trade_info)) = 2
    /\ extract_call.result = [mant |-> 25, exp |-> 1]

\* 1 to 10 letters or digits, then possibly a dot and two letters
WellFormedTicker(t) ==
    \E n \in 1..10 :
        /\ Len(t) \in {n, n + 3}
        /\ \A i \in 1..n : IsAlnum(t[i])
        /\ Len(t) = n + 3 =>
              (t[n + 1] = "." /\ IsAlpha(t[n + 2]) /\ IsAlpha(t[n + 3]))

\* The body breaks a field constraint.  Lengths of a tag are those of the
\* tag without the blanks around it; a memo is too short or too long if it
\* is so as sent or without the blanks around it.
Violates(body) ==
    \/ ~WellFormedTicker(Strip(body.ticker))
    \/ Percents(body.trade_info) = {}
    \/ Len(body.emotion_tags) \notin 1..10
    \/ \E i \in 1..Len(body.emotion_tags) : Len(Strip(body.emotion_tags[i])) > 20
    \/ Len(body.memo) \notin 10..2000
    \/ Len(Strip(body.memo)) \notin 10..2000

\* Request r has done nothing but be refused
OnlyRejected(r) ==
    /\ market_calls[r] = 0
    /\ calls[r] = <<>> /\ ~classified[r]
    /\ db_writes[r] = 0
    /\ TradesOf(r) = {} /\ NotesOf(r) = {}
    /\ session[r].new = {}
    /\ session[r].ins_trades = {} /\ session[r].ins_notes = {}
    /\ pc[r] \in {"start", "responded", "closed"}
    /\ pc[r] = "responded" =>
          /\ failed_at[r] \in {"auth", "validate"}
          /\ response[r].status \in
                {HTTP_401_UNAUTHORIZED, HTTP_422_UNPROCESSABLE_ENTITY}

\* C17: a create_review request whose body breaks a field constraint
\* (ticker format, no parenthesized percentage in the trade-info, not 1 to
\* 10 emotion tags or a tag of more than 20 characters, a memo outside 10
\* to 2000 characters) never makes a market-data call, a model call or a
\* database write, and is answered with the rejection (or with 401 when
\* its token is refused) as its only outcome.
C17_InvalidRejectedFirst ==
    \A r \in Reqs : ~OnlyRejected(r) => ~Violates(payload[r])

\* a body with a memo one character too long, rejected with no call made
C17_Witness ==
    \E r \in Reqs :
        /\ Len(payload[r].memo) = MEMO_MAX_LENGTH + 1
        /\ failed_at[r] = "validate"
        /\ response[r].status = HTTP_422_UNPROCESSABLE_ENTITY
        /\ market_calls[r] = 0 /\ db_writes[r] = 0
        /\ pc[r] = "closed"

\* The review request r asks for is not one its user owns
NotOwned(r) ==
    ~ \E n \in review_notes :
          n.id = payload[r].review_id /\ n.user_id = current_user[r]

\* What the caller sees of a request that found nothing, and what the
\* request left in the database
NotFoundOutcome(r) ==
    /\ response[r] = [status |-> HTTP_404_NOT_FOUND, body |-> NoDict]
    /\ failed_at[r] = "not_found"
    /\ db_writes[r] = 0
    /\ session[r].new = {}
    /\ session[r].ins_trades = {} /\ session[r].ins_notes = {}

\* C18: update_final_memo and get_review called with the id of a review
\* the caller does not own end in one and the same not-found response and
\* write nothing, whether the id belongs to another user's review or to
\* none: the caller cannot tell the two cases apart, and the review, if
\* no other request is on it, keeps the memo it had.
C18_NotFoundHidesExistence ==
    \A r \in Reqs :
        (/\ Operation(r) \in {"get_review", "update_final_memo"}
         /\ pc[r] \in {"memo_commit", "memo_refresh", "serialize", "responded"}
         /\ failed_at[r] \notin {"auth", "validate"}
         /\ NotOwned(r)) =>
            /\ pc[r] = "responded"
            /\ NotFoundOutcome(r)
            /\ review[r] = NoObject
            /\ (\A q \in Reqs \ {r} :
                    Get(payload[q], "review_id", 0) # payload[r].review_id)
                  => \A n \in review_notes :
                        n.id = payload[r].review_id => n.final_memo = NoneStr

\* user 1 asked to update review 2, which is user 2's, and got the answer
\* it gets when review 2 does not exist; the review is as it was
C18_Witness ==
    \E r \in Reqs :
        /\ Operation(r) = "update_final_memo" /\ payload[r].review_id = 2
        /\ current_user[r] = 1 /\ pc[r] = "responded"
        /\ NotFoundOutcome(r)
        /\ \E n \in review_notes :
              n.id = 2 /\ n.user_id = 2 /\ n.final_memo = NoneStr

\* The fields of the persisted review record as it is read back
RecordFields ==
    {"id", "user_id", "trade_id", "created_at", "subjective_memo",
     "emotion_tags", "chart_context", "news_context", "market_context",
     "financial_context", "ai_analysis", "ai_questions", "primary_type",
     "secondary_type", "final_memo"}

\* C19: when update_final_memo has found the caller's review and committed
\* the memo (and the refresh went through), the caller gets a success
\* response that carries every field of the review record, the final memo
\* just written among them.
C19_UpdateReturnsFullRecord ==
    \A r \in Reqs :
        (/\ Operation(r) = "update_final_memo"
         /\ pc[r] = "responded"
         /\ db_writes[r] = 1
         /\ failed_at[r] \notin {"commit", "refresh"}) =>
            /\ response[r].status = HTTP_200_OK
            /\ RecordFields \subseteq DOMAIN response[r].body
            /\ response[r].body.final_memo = payload[r].final_memo

\* C20: when create_review has answered 201, the ReviewNote it committed
\* carries primary_type, secondary_type, analysis and questions of the
\* model's response, its Trade carries the percentage of the request's
\* trade-info as profit_loss_rate, and the body of the response carries the
\* same four classification values as the note.
C20_PersistedMatchesResponse ==
    \A r \in Reqs :
        (/\ Operation(r) = "create_review"
         /\ pc[r] = "responded"
         /\ response[r].status = HTTP_201_CREATED) =>
            /\ \E n \in NotesOf(r) :
                  /\ n.primary_type = Get(ai_response[r], "primary_type", None)
                  /\ n.secondary_type = Get(ai_response[r], "secondary_type", None)
                  /\ n.ai_analysis = Get(ai_response[r], "analysis", None)
                  /\ n.ai_questions = Get(ai_response[r], "questions", None)
                  /\ response[r].body.primary_type = n.primary_type
                  /\ response[r].body.secondary_type = n.secondary_type
                  /\ response[r].body.analysis = n.ai_analysis
                  /\ response[r].body.questions = n.ai_questions
                  /\ \E t \in TradesOf(r) :
                        /\ t.id = n.trade_id
                        /\ IsRateOf(t.profit_loss_rate,
                              ReviewCreateRequest(payload[r]).value.trade_info)

\* The request is in get_ai_feedback or has made a model call
Classifying(r) ==
    pc[r] \in {"model_call", "backoff", "check"} \/ calls[r] # <<>>

\* The request has added, flushed or committed something
Persisting(r) ==
    \/ db_writes[r] > 0
    \/ session[r].new # {}
    \/ session[r].ins_trades # {} \/ session[r].ins_notes # {}
    \/ TradesOf(r) # {} \/ NotesOf(r) # {}
    \/ pc[r] \in {"note", "refresh", "respond"}

\* C21: within one create_review the order market-data call, prompt
\* compilation, model invocation, persistence is fixed: a request that is
\* calling the model has received the market-data answer and compiled the
\* prompt input from it, and a request that has added, flushed or committed
\* a row has made its one market-data call and has been returned a
\* classification without error.
C21_StepOrder ==
    \A r \in Reqs :
        Operation(r) = "create_review" =>
            /\ Classifying(r) =>
                  /\ market_calls[r] = 1 /\ market_exc[r] = ""
                  /\ objective_data[r] # NoDict
                  /\ ai_input_data[r] # NoDict
                  /\ ~Persisting(r)
            /\ Persisting(r) =>
                  /\ market_calls[r] = 1 /\ market_exc[r] = ""
                  /\ classified[r]
                  /\ failed_at[r] \notin {"auth", "validate", "market",
                                          "prompt", "classify"}
                  /\ pc[r] \in {"note", "refresh", "respond"} =>
                        /\ ~HasError(ai_response[r])
                        /\ ai_input_data[r] # NoDict

\* a request has committed its pair after one market-data call and a
\* parsed classification, while another is still calling the model
C21_Witness ==
    \E r1, r2 \in Reqs :
        /\ pc[r1] = "refresh" /\ db_writes[r1] = 2 /\ NotesOf(r1) # {}
        /\ market_calls[r1] = 1 /\ classified[r1]
        /\ pc[r2] = "model_call" /\ objective_data[r2] # NoDict

\* C22: while the market-data call, a model call or a backoff sleep of a
\* create_review is in progress, the session of the request has no open
\* transaction and nothing added or inserted; when the request has
\* completed, its transaction is committed or rolled back and the session
\* holds nothing.
C22_NoTransactionAcrossCalls ==
    \A r \in Reqs :
        /\ (Operation(r) = "create_review"
              /\ pc[r] \in {"market", "feedback", "model_call", "backoff",
                            "check"})
            => session[r] = EmptySession
        /\ pc[r] = "closed" => session[r] = EmptySession

\* Every ReviewNote row there is: committed, or inserted in some session
AllNotes == review_notes \cup UNION {session[r].ins_notes : r \in Reqs}
AllTrades == trades \cup UNION {session[r].ins_trades : r \in Reqs}

\* The request got past the classification and no statement of its
\* persistence step up to the commit failed
CommitsPair(r) ==
    /\ classified[r]
    /\ pc[r] \in {"refresh", "respond", "responded", "closed"}
    /\ failed_at[r] \notin {"auth", "validate", "market", "prompt", "classify",
                            "add_trade", "flush", "add_note", "commit"}

\* C23: concurrent create_review calls are independent. Under every
\* interleaving a call that got past classification, and whose own
\* statements did not fail, has exactly its own Trade and ReviewNote
\* committed, whatever the other calls did or failed at; no two rows,
\* committed or pending in any session, have the same id and no two
\* ReviewNotes the same trade_id, so the uniqueness constraint on
\* ReviewNote.trade_id never stands in the way of an insert.
C23_ConcurrentCallsIndependent ==
    /\ \A r \in Reqs :
          (Operation(r) = "create_review" /\ CommitsPair(r)) =>
              /\ Cardinality(TradesOf(r)) = 1 /\ Cardinality(NotesOf(r)) = 1
              /\ \A n \in NotesOf(r) : \A t \in TradesOf(r) :
                    /\ n.trade_id = t.id /\ n.user_id = t.user_id
                    /\ pc[r] # "closed" =>
                          (n = new_note[r] /\ t = new_trade[r])
    /\ \A n1, n2 \in AllNotes :
          (n1.id = n2.id \/ n1.trade_id = n2.trade_id) => n1 = n2
    /\ \A t1, t2 \in AllTrades : t1.id = t2.id => t1 = t2

\* two calls of the same user both committed, the one that inserted its
\* Trade first committing last, and both calls are over
C23_Witness ==
    \E n1, n2 \in review_notes :
        /\ n1.req # n2.req /\ n1.user_id = n2.user_id
        /\ n1.trade_id < n2.trade_id /\ n1.id > n2.id
        /\ pc[n1.req] = "closed" /\ pc[n2.req] = "closed"

\* C24: in every state the committed Trades and ReviewNotes are in
\* one-to-one correspondence: a ReviewNote references exactly one Trade,
\* which has the owner of the note; no two ReviewNotes reference the same
\* Trade; every Trade is referenced; there are as many Trades as
\* ReviewNotes.
C24_TradeNoteOneToOne ==
    /\ \A n \in review_notes :
          /\ Cardinality({t \in trades : t.id = n.trade_id}) = 1
          /\ \A t \in trades : t.id = n.trade_id => t.user_id = n.user_id
    /\ \A n1, n2 \in review_notes : n1.trade_id = n2.trade_id => n1 = n2
    /\ \A t \in trades :
          Cardinality({n \in review_notes : n.trade_id = t.id}) = 1
    /\ Cardinality(trades) = Cardinality(review_notes)

\* the pairs of two users are committed
C24_Witness ==
    /\ Cardinality(review_notes) = 2
    /\ {n.user_id : n \in review_notes} = Users
    /\ {t.user_id : t \in trades} = Users

\* The steps at which update_final_memo answers not-found or with the
\* persistence error, and the steps before its handler is entered
MemoFailures == {"auth", "validate", "not_found", "commit", "refresh"}

\* Request r is an update_final_memo that wrote memo into note id and did
\* not fail
WroteMemo(r, id, memo) ==
    /\ Operation(r) = "update_final_memo"
    /\ payload[r].review_id = id
    /\ payload[r].final_memo = memo
    /\ db_writes[r] = 1
    /\ failed_at[r] \notin MemoFailures

\* C25: a ReviewNote is created without final_memo, and
\* update_final_memo changes the final_memo of the targeted note only:
\* every other field of every ReviewNote and every Trade are as they were
\* created, and a final_memo is present only where an update_final_memo
\* that did not fail (not found, persistence error) has written it.
C25_UpdateChangesOnlyFinalMemo ==
    /\ \A n \in review_notes :
          /\ [n EXCEPT !.final_memo = NoneStr] = SeedNote(n.user_id, n.id)
          /\ n.final_memo # NoneStr =>
                \E r \in Reqs : WroteMemo(r, n.id, n.final_memo)
    /\ \A t \in trades : t = SeedTrade(t.user_id, t.id)
    /\ Cardinality(trades) = Cardinality(review_notes)

\* ------------------------------- data processor: GET /api/market/context
\* {"error": message}: what a sub-section carries instead of data
ErrorDict(message) == [error |-> message]

\* d[key] = value
SetItem(d, key, value) ==
    [k \in DOMAIN d \cup {key} |-> IF k = key THEN value ELSE d[k]]

\* The local variable info of get_current_market_context before its
\* assignment
Unbound == "<unbound>"

\* What yfinance does during one call: ticker.history(period="1y") (a
\* frame, a frame _get_technical_summary cannot process, an empty frame, an
\* exception), ticker.info, ticker.quarterly_financials, ticker.news (items,
\* none, an item without providerPublishTime, an exception) and
\* index_ticker.history(period="5d") (the last close above or not above the
\* one before, a single row, an empty frame, an exception)
YfBehaviours ==
    [history : {"data", "unprocessable", "empty", "raise"},
     info : {"dict", "raise"},
     quarterly_financials : {"data", "empty", "raise"},
     news : {"items", "empty", "no_time", "raise"},
     index_history : {"rising", "falling", "one_row", "empty", "raise"}]

\* The query strings sent: ticker absent or present
ContextRequests == [ticker : {"", "TSLA"}, market_index : {"^GSPC"}]

_get_technical_summary(hist_data) ==
    IF hist_data = "unprocessable"
    THEN ErrorDict("Technical data processing failed. (Maybe not enough history data): <e>")
    ELSE [current_price |-> "<.2f>", ma_50 |-> "<.2f>", ma_200 |-> "<.2f>",
          volume |-> "<,>", rsi_14 |-> "<.2f>",
          price_vs_ma50_status |-> "<text>", ma_trend_status |-> "<text>",
          rsi_status |-> "<text>"]

\* context_endpoint up to its call of get_current_market_context, and that
\* function up to its first sub-section
ContextEndpoint ==
    /\ context_call.state = "pending"
    /\ context_call' =
          IF ~Truthy(context_call.ticker)
          THEN [context_call EXCEPT
                   !.state = "returned", !.status = 400,
                   !.body = ErrorDict("Missing required query parameter: ticker")]
          ELSE [context_call EXCEPT
                   !.state = "chart",
                   !.context = [ticker |-> context_call.ticker,
                                market_index |-> context_call.market_index,
                                fetch_timestamp_kst |-> "<now>"]]
    /\ UNCHANGED <<max_retries, retry_delay, workload, payload, extract_call,
                   pc, current_user, objective_data, mkt_vars, ai_input_data,
                   ai_vars, res_vars, obj_vars, session, response, failed_at,
                   db_writes, db_vars>>

\* 1. chart_indicators
ChartSection ==
    /\ context_call.state = "chart"
    /\ LET hist_data == context_call.yf.history
           section ==
               CASE hist_data = "raise" -> ErrorDict("Failed to get history: <e>")
                 [] hist_data = "empty" -> ErrorDict("No history data found.")
                 [] OTHER -> _get_technical_summary(hist_data)
       IN context_call' =
             [context_call EXCEPT
                 !.state = "financial",
                 !.context = SetItem(@, "chart_indicators", section)]
    /\ UNCHANGED <<max_retries, retry_delay, workload, payload, extract_call,
                   pc, current_user, objective_data, mkt_vars, ai_input_data,
                   ai_vars, res_vars, obj_vars, session, response, failed_at,
                   db_writes, db_vars>>

\* 2. financial_indicators: info is assigned by the first statement of the
\* try block and stays unassigned when ticker.info raises
FinancialSection ==
    /\ context_call.state = "financial"
    /\ LET yf == context_call.yf
           financials ==
               [k \in {"sector", "industry", "market_cap", "pe_ratio_ttm",
                        "eps_ttm", "dividend_yield", "52_week_high",
                        "52_week_low"} |-> "<info>"]
           section ==
               CASE yf.info = "raise" \/ yf.quarterly_financials = "raise" ->
                        ErrorDict("Failed to get financial info: <e>")
                 [] yf.quarterly_financials = "empty" -> financials
                 [] OTHER ->
                        SetItem(financials, "latest_quarter_report",
                                [report_date |-> "<%Y-%m-%d>",
                                 total_revenue |-> "<Total Revenue>",
                                 net_income |-> "<Net Income>"])
       IN context_call' =
             [context_call EXCEPT
                 !.state = "news",
                 !.info = IF yf.info = "raise" THEN Unbound ELSE "dict",
                 !.context = SetItem(@, "financial_indicators", section)]
    /\ UNCHANGED <<max_retries, retry_delay, workload, payload, extract_call,
                   pc, current_user, objective_data, mkt_vars, ai_input_data,
                   ai_vars, res_vars, obj_vars, session, response, failed_at,
                   db_writes, db_vars>>

\* 3. related_news: datetime.fromtimestamp(None) raises
NewsSection ==
    /\ context_call.state = "news"
    /\ LET news == context_call.yf.news
           section ==
               CASE news \in {"raise", "no_time"} ->
                        ErrorDict("Failed to get news: <e>")
                 [] news = "empty" -> [list |-> <<>>]
                 [] OTHER ->
                        [list |-> <<[title |-> "<title>",
                                     publisher |-> "<publisher>",
                                     link |-> "<link>",
                                     publish_time |-> "<iso>"]>>]
       IN context_call' =
             [context_call EXCEPT
                 !.state = "market",
                 !.context = SetItem(@, "related_news", section)]
    /\ UNCHANGED <<max_retries, retry_delay, workload, payload, extract_call,
                   pc, current_user, objective_data, mkt_vars, ai_input_data,
                   ai_vars, res_vars, obj_vars, session, response, failed_at,
                   db_writes, db_vars>>

\* 4. market_indicators: index_hist.iloc[-2] raises on a single row, and
\* info.get('shortName', market_index) raises when info was never assigned
MarketSection ==
    /\ context_call.state = "market"
    /\ LET index_hist == context_call.yf.index_history
           section ==
               CASE index_hist \in {"raise", "one_row"} ->
                        ErrorDict("Failed to get market index: <e>")
                 [] index_hist = "empty" ->
                        ErrorDict("Market index data not found.")
                 [] context_call.info = Unbound ->
                        ErrorDict("Failed to get market index: <e>")
                 [] OTHER ->
                        [index_name |-> "<shortName>",
                         current_price |-> "<.2f>", change |-> "<+.2f>",
                         change_percent |-> "<+.2f>%",
                         status |-> IF index_hist = "rising"
                                    THEN "RISING" ELSE "FALLING"]
       IN context_call' =
             [context_call EXCEPT
                 !.state = "return",
                 !.context = SetItem(@, "market_indicators", section)]
    /\ UNCHANGED <<max_retries, retry_delay, workload, payload, extract_call,
                   pc, current_user, objective_data, mkt_vars, ai_input_data,
                   ai_vars, res_vars, obj_vars, session, response, failed_at,
                   db_writes, db_vars>>

\* return context, and context_endpoint's answer to it
ContextReturn ==
    /\ context_call.state = "return"
    /\ LET data == context_call.context
       IN context_call' =
             [context_call EXCEPT
                 !.state = "returned",
                 !.status = IF Truthy(Get(data, "error", None)) THEN 500 ELSE 200,
                 !.body = data]
    /\ UNCHANGED <<max_retries, retry_delay, workload, payload, extract_call,
                   pc, current_user, objective_data, mkt_vars, ai_input_data,
                   ai_vars, res_vars, obj_vars, session, response, failed_at,
                   db_writes, db_vars>>

\* One call of context_endpoint, for every query and every behaviour of
\* yfinance, and no request to the review service
InitContext ==
    /\ InitOf({}, {MAX_RETRIES}, {1})
    /\ workload = BaseWorkload
    /\ EmptyDatabase
    /\ payload = [r \in Reqs |-> TheRequest]
    /\ extract_call = NoCall
    /\ \E q \in ContextRequests, yf \in YfBehaviours :
          context_call =
              [state |-> "pending", ticker |-> q.ticker,
               market_index |-> q.market_index, yf |-> yf, info |-> Unbound,
               context |-> EmptyDict, status |-> 0, body |-> EmptyDict]

NextContext ==
    \/ ContextEndpoint
    \/ ChartSection
    \/ FinancialSection
    \/ NewsSection
    \/ MarketSection
    \/ ContextReturn

ContextSpec == InitContext /\ [][NextContext]_vars

IsMarker(section) == "error" \in DOMAIN section

\* C26: when get_current_market_context has returned, each of the four
\* sub-sections carries an error marker exactly when its own source failed
\* (the history of the ticker for chart_indicators, info or the quarterly
\* financials for financial_indicators, the news for related_news, the
\* history of the index for market_indicators), whatever happened to the
\* other three, and the call is answered 200.
C26_SectionsFailIndependently ==
    context_call.state = "returned" /\ Truthy(context_call.ticker) =>
        LET yf == context_call.yf
            data == context_call.body
        IN /\ context_call.status = 200
           /\ IsMarker(data.chart_indicators)
                 <=> yf.history \in {"unprocessable", "empty", "raise"}
           /\ IsMarker(data.financial_indicators)
                 <=> yf.info = "raise" \/ yf.quarterly_financials = "raise"
           /\ IsMarker(data.related_news)
                 <=> yf.news \in {"no_time", "raise"}
           /\ IsMarker(data.market_indicators)
                 <=> yf.index_history \in {"one_row", "empty", "raise"}

\* The two kinds of value get_ai_feedback is specified to return
Failure(v) == "error" \in DOMAIN v /\ v.error # None /\ v.error # ""
Success(v) == ~HasError(v) /\ v \in workload.objects

\* C27: whenever get_ai_feedback has returned to create_review, whatever the
\* model calls did and whatever the retry budget is, the value returned is
\* either a failure with a non-empty reason or an object parsed from the
\* answer of the last model call, never both and never anything else; no
\* more than max_retries model calls were made, and with max_retries = 0
\* none was made and the value is the failure of the exhausted budget.  No
\* request is answered from inside get_ai_feedback.
C27_AlwaysTaggedResult ==
    \A r \in Reqs :
        /\ pc[r] = "check" =>
              /\ Failure(ai_response[r]) \/ Success(ai_response[r])
              /\ ~(Failure(ai_response[r]) /\ Success(ai_response[r]))
              /\ Success(ai_response[r]) <=> classified[r] /\ ~HasError(ai_response[r])
              /\ Len(calls[r]) <= max_retries
              /\ max_retries = 0 =>
                    calls[r] = <<>> /\ ai_response[r] = ErrExhausted
        /\ pc[r] \in {"model_call", "backoff", "check"} =>
              response[r] = NoResponse /\ failed_at[r] = ""

\* The budget is 0: get_ai_feedback has returned the failure without a model
\* call
C27_Witness ==
    \E r \in Reqs :
        /\ pc[r] = "check"
        /\ max_retries = 0
        /\ calls[r] = <<>>
        /\ Failure(ai_response[r])

\* The answer has a primary_type or a secondary_type that is a non-empty
\* text outside the nine types
OffList(resp) ==
    \E k \in {"primary_type", "secondary_type"} :
        /\ Truthy(Get(resp, k, None))
        /\ Get(resp, k, None) \notin ClassificationTypes

\* C28: an answer of the model whose primary_type or secondary_type is a
\* non-empty text outside the nine types is returned by get_ai_feedback as a
\* success by the very call that received it (no sleep follows it, it is the
\* last call made); create_review does not reject it: the request can fail
\* in the persistence steps only, and when it is answered 201 the
\* ReviewNote committed and the body returned carry the two types exactly as
\* the model gave them.
C28_TaxonomyNotEnforced ==
    \A r \in Reqs :
        (Operation(r) = "create_review" /\ classified[r]
            /\ OffList(ai_response[r])) =>
            /\ ~HasError(ai_response[r])
            /\ pc[r] = "check" =>
                  Last(calls[r]) = "parsed" /\ Len(sleeps[r]) = Len(calls[r]) - 1
            /\ failed_at[r] \in {""} \cup PersistSteps
            /\ response[r].status = HTTP_201_CREATED =>
                  /\ response[r].body.primary_type = ai_response[r].primary_type
                  /\ response[r].body.secondary_type = ai_response[r].secondary_type
                  /\ \E n \in NotesOf(r) :
                        /\ n.primary_type = ai_response[r].primary_type
                        /\ n.secondary_type = ai_response[r].secondary_type

\* A request answered 201 whose note carries a primary_type outside the
\* nine types
C28_Witness ==
    \E r \in Reqs :
        /\ response[r].status = HTTP_201_CREATED
        /\ ai_response[r] = OffListPrimaryObject
        /\ \E n \in NotesOf(r) : n.primary_type \notin ClassificationTypes

\* C29: once create_review has answered, the answer is 201 exactly when the
\* Trade and the ReviewNote of the request are committed; a request answered
\* with an error, at whatever step it was raised, has no committed row.
C29_OutcomeAgreesWithDatabase ==
    \A r \in Reqs :
        (Operation(r) = "create_review" /\ response[r] # NoResponse) =>
            /\ response[r].status = HTTP_201_CREATED
                  <=> TradesOf(r) # {} /\ NotesOf(r) # {}
            /\ response[r].status # HTTP_201_CREATED
                  => TradesOf(r) = {} /\ NotesOf(r) = {}

\* C30: create_review answers with the analysis failure only if
\* get_ai_feedback returned one of its own failures: a request whose model
\* call returned a parsed JSON object, whatever its keys, is never failed at
\* the test of the answer, and goes on to the persistence steps.
C30_FailureOnlyWhenInvokerFailed ==
    \A r \in Reqs :
        (Operation(r) = "create_review" /\ classified[r]) =>
            /\ failed_at[r] # "classify"
            /\ pc[r] \in {"responded", "closed"} =>
                  db_writes[r] > 0 \/ failed_at[r] \in PersistSteps

====
